---- MODULE Spec2Model ----
(***************************************************************************)
(* Local price cache of StockMarketHistoryCruncher: the bar store and      *)
(* CacheManager.get_bars (backend/cache/manager.py) and the S&P 500 batch  *)
(* job infrastructure (backend/cache/sp500_cacher.py).                     *)
(*                                                                         *)
(* Dates are day numbers.  A get_bars call is a sequence of steps (call,   *)
(* one step per upstream fetch, read) held in a per-thread call frame, so  *)
(* that the threads of the Flask server and the batch workers interleave   *)
(* at the granularity of the store's transactions.                         *)
(***************************************************************************)
EXTENDS Integers, Sequences, FiniteSets, TLC

\* ------------------------------------------------------------------ bounds
\* Requests use the dates 1..MaxDate.
MaxDate == 3
\* At most MaxJobs rows are ever inserted into cache_jobs.
MaxJobs == 2

\* ------------------------------------------------------- program constants
\* NULL in a DATE column / Python None for a date.
NoDate == -1
\* Python None for _job_thread and _current_job_id.
NoJob == 0
\* SQLite rowids of cache_jobs start at 1.
FirstJobId == 1

\* The symbols of the model.
Tickers == {"AAPL", "MSFT"}
\* The symbols the synchronous API is called with.
SyncTickers == {"MSFT"}

ReqDates == 1..MaxDate
\* Dates a stored bar can carry (a bar of day 1 can be stored under day 0,
\* see bar_date).
StoreDates == 0..MaxDate

\* Threads that run get_bars: 0 is the synchronous caller
\* (fetch_aggregate_bars_cached), j >= 1 is the worker thread of job j.
SyncProc == 0
Procs == 0..MaxJobs

\* ------------------------------------------------------------- upstream
\* Hours per day, and the UTC hour of midnight US/Eastern, at which the
\* provider timestamps a daily bar ('t', here in hours instead of ms).
HoursPerDay == 24
EasternMidnightUTC == 5
\* Offsets (hours) of the server's local time zone that the model covers:
\* UTC and US/Pacific.
TzOffsets == {0, -8}

\* The adjusted close the provider reports for a bar, and the one it reports
\* after a corporate action made it revise its history ('adjusted=true').
OriginalClose == 1
RevisedClose == 2

\* First day for which the provider has bars of a symbol.
ListedFrom(ticker) == IF ticker = "MSFT" THEN 2 ELSE 1

\* Exceptions raised by fetch_aggregate_bars:
\* "API error for {ticker}: {status_code} - {response.text}".
\* body says what the response text contains besides the status code:
\* "rate" the substring 'rate' or '429', "auth" the substring '403' or
\* 'NOT_AUTHORIZED', "plain" none of them.
Errors == { [status |-> 429, body |-> "plain"],
            [status |-> 403, body |-> "plain"],
            [status |-> 500, body |-> "plain"],
            [status |-> 500, body |-> "rate"],
            [status |-> 500, body |-> "auth"] }
NoErr == [status |-> 200, body |-> "plain"]

\* sqlite3.OperationalError('database is locked'), raised by a statement
\* that writes while another connection holds the write lock: its message
\* has none of the substrings above.
DatabaseLocked == [status |-> 0, body |-> "locked"]

\* What a fetch can answer: the bars (NoErr) or one of the exceptions.
Responses == {NoErr} \cup Errors
\* The answers considered while several batch jobs race: the bars, an
\* authorization failure, a generic upstream failure.
JobResponses == {NoErr, [status |-> 403, body |-> "plain"],
                 [status |-> 500, body |-> "plain"]}

\* What the upstream did: the failure kinds of the fetcher contract.
RateLimited(e) == e.status = 429
AuthorizationDenied(e) == e.status = 403

\* The test for 'NOT_AUTHORIZED' alone.
MatchesAuth_body_only(e) == e.body = "auth"

\* '403' in str(e) or 'NOT_AUTHORIZED' in str(e)
MatchesAuth(e) == e.status = 403 \/ e.body = "auth"

\* '429' in error_str or 'rate' in error_str
MatchesRateLimit(e) == e.status = 429 \/ e.body = "rate"

\* ------------------------------------------------------------- variables
VARIABLES
    daily_bars,        \* [Tickers -> [StoreDates -> rows of that date]]
    ticker_metadata,   \* [Tickers -> row], row.exists = FALSE: no row
    tz_offset,         \* local time zone of the server, fixed at start
    adjusted_close,    \* the close the provider reports now for every bar
    policy,            \* the last call of a RefreshPolicy method
    call,              \* [Procs -> frame of the thread's get_bars call]
    last_op,           \* the last completed store operation of the API
    sp500_constituents, \* the cached constituent list, ORDER BY ticker
    list_age,          \* days since the list was last refreshed
    status_call,       \* frame of get_caching_status or sync_sp500_flags
    other_store,       \* [symbols outside Tickers with rows -> their rows
                       \* of daily_bars and their row of ticker_metadata]
    cache_jobs,        \* sequence of job rows, id = index
    job_thread,        \* _job_thread: NoJob or the thread created for a job
    current_job_id,    \* _current_job_id
    thread,            \* [1..MaxJobs -> "none","created","alive","dead"]
    req,               \* [Callers -> frame of start_sp500_cache_job]
    worker,            \* [1..MaxJobs -> frame of run_sp500_cache_job]
    writer,            \* [Writers -> frame of a _fetch_and_store call]
    putcall_ratio,     \* [PcrDates -> source of the date's row]
    cboe_loaded,       \* metadata has the row ('cboe_loaded', 'true')
    loader,            \* frame of load_cboe_historical
    snapshot           \* frame of fetch_polygon_daily

\* The state of the put/call ratio cache (backend/cache/putcall_ratio.py).
putcallVars == <<putcall_ratio, cboe_loaded, loader, snapshot>>

storeVars == <<daily_bars, ticker_metadata, tz_offset, writer, putcallVars, adjusted_close, policy,
               call, last_op, sp500_constituents, list_age, status_call,
               other_store>>
jobVars == <<cache_jobs, job_thread, current_job_id, thread, req, worker>>
vars == <<daily_bars, ticker_metadata, tz_offset, writer, putcallVars, adjusted_close, policy,
          call, last_op, sp500_constituents, list_age, status_call,
          other_store,
          cache_jobs, job_thread, current_job_id, thread, req, worker>>

\* ------------------------------------------------------------- helpers
SetMin(S) == CHOOSE x \in S : \A y \in S : x <= y
SetMax(S) == CHOOSE x \in S : \A y \in S : x >= y

\* A symbol's rows in daily_bars are kept per date: rows[d] is the sequence
\* of the close values of the rows with date d, in rowid order.
NoBars == [d \in StoreDates |-> <<>>]

\* The dates of a symbol's rows in daily_bars.
BarDates(bars, ticker) == {d \in StoreDates : bars[ticker][d] # <<>>}

RECURSIVE CountFrom(_, _)
CountFrom(rows, d) ==
    IF d \notin StoreDates THEN 0 ELSE Len(rows[d]) + CountFrom(rows, d + 1)
\* SELECT COUNT(*) FROM daily_bars WHERE ticker = ?
CountRows(rows) == CountFrom(rows, SetMin(StoreDates))

\* Python None for a timestamp (a NULL TIMESTAMP column).
NoTime == -1

\* A row of ticker_metadata (exists = FALSE: the symbol has no row) with
\* the defaults of its columns; last_updated is not followed.
NoRow == [exists |-> FALSE, first_date |-> NoDate, last_date |-> NoDate,
          total_bars |-> 0, is_sp500 |-> FALSE, last_full_refresh |-> NoTime]

\* The two tables hold rows of any symbol.  daily_bars and ticker_metadata
\* are those of the symbols of Tickers; others holds, for every other symbol
\* with a row in either table, its rows of daily_bars and its row of
\* ticker_metadata.
\* ... WHERE ticker = ? for such a symbol:
other_symbol(others, ticker) ==
    IF ticker \in DOMAIN others THEN others[ticker]
    ELSE [rows |-> NoBars, meta |-> NoRow]

\* others once a statement has left the symbol with the rows and the
\* metadata row of v.
with_symbol(others, ticker, v) ==
    LET symbols == IF v.meta.exists \/ v.rows # NoBars
                   THEN DOMAIN others \cup {ticker}
                   ELSE DOMAIN others \ {ticker}
    IN [s \in symbols |-> IF s = ticker THEN v ELSE others[s]]

\* ----------------------------------------------------------- the fetcher
RECURSIVE BarsFrom(_, _, _)
\* The provider's bars of ticker with start <= day <= end, ascending.
BarsFrom(ticker, start, end) ==
    IF start > end THEN <<>>
    ELSE (IF start >= ListedFrom(ticker)
          THEN <<[t |-> start * HoursPerDay + EasternMidnightUTC,
                  c |-> adjusted_close]>>
          ELSE <<>>) \o BarsFrom(ticker, start + 1, end)

fetch_aggregate_bars(ticker, start_date, end_date) ==
    BarsFrom(ticker, start_date, end_date)

\* ------------------------------------------------------------ the store
\* datetime.fromtimestamp(bar['t'] / 1000).date(): the local calendar day.
bar_date(t, tz) == (t + tz) \div HoursPerDay

\* A plain INSERT: the row is added whatever rows the date has.
insert_plain(rows, d, c) == [rows EXCEPT ![d] = Append(rows[d], c)]

\* INSERT OR IGNORE: a row that conflicts with a stored one is dropped.
insert_or_ignore(rows, d, c) ==
    IF rows[d] # <<>> THEN rows ELSE [rows EXCEPT ![d] = <<c>>]

\* INSERT OR REPLACE under UNIQUE(ticker, date): the rows that conflict with
\* the new one are deleted, then the new row is inserted.
insert_or_replace(rows, d, c) == [rows EXCEPT ![d] = <<c>>]

RECURSIVE store_bars(_, _, _)
\* INSERT OR REPLACE of every bar, in list order; returns the symbol's rows.
store_bars(rows, bars, tz) ==
    IF bars = <<>> THEN rows
    ELSE store_bars(insert_or_replace(rows, bar_date(Head(bars).t, tz),
                                      Head(bars).c),
                    Tail(bars), tz)

\* SELECT MIN(date), MAX(date), COUNT(*) FROM daily_bars WHERE ticker = ?
select_coverage(rows) ==
    LET ds == {d \in StoreDates : rows[d] # <<>>}
    IN IF ds = {}
       THEN [first_date |-> NoDate, last_date |-> NoDate, total |-> 0]
       ELSE [first_date |-> SetMin(ds), last_date |-> SetMax(ds),
             total |-> CountRows(rows)]

\* if row and row['first_date']: INSERT INTO ticker_metadata ...
\* ON CONFLICT(ticker) DO UPDATE SET first_date, last_date, total_bars.
upsert_metadata(meta, row) ==
    IF row.first_date # NoDate
    THEN [meta EXCEPT !.exists = TRUE, !.first_date = row.first_date,
                      !.last_date = row.last_date, !.total_bars = row.total]
    ELSE meta

\* MIN(date), MAX(date), COUNT(*) of the symbol's rows, upserted into the
\* metadata row only when there is at least one row.
update_metadata(rows, meta) ==
    LET ds == {d \in StoreDates : rows[d] # <<>>}
    IN IF ds # {}
       THEN [meta EXCEPT !.exists = TRUE, !.first_date = SetMin(ds),
                         !.last_date = SetMax(ds), !.total_bars = CountRows(rows)]
       ELSE meta

\* DELETE ... WHERE date >= start AND date <= end.
delete_range(rows, start_date, end_date) ==
    [d \in StoreDates |-> IF d >= start_date /\ d <= end_date THEN <<>> ELSE rows[d]]

\* The read with date < end in place of date <= end.
RECURSIVE get_from_cache_exclusive_end(_, _, _)
get_from_cache_exclusive_end(rows, start_date, end_date) ==
    IF start_date >= end_date THEN <<>>
    ELSE (IF start_date \in StoreDates
          THEN [k \in 1..Len(rows[start_date]) |->
                    <<start_date, rows[start_date][k]>>]
          ELSE <<>>)
         \o get_from_cache_exclusive_end(rows, start_date + 1, end_date)

\* SELECT ... WHERE date >= start AND date <= end ORDER BY date ASC.
RECURSIVE get_from_cache(_, _, _)
get_from_cache(rows, start_date, end_date) ==
    IF start_date > end_date THEN <<>>
    ELSE (IF start_date \in StoreDates
          THEN [k \in 1..Len(rows[start_date]) |->
                    <<start_date, rows[start_date][k]>>]
          ELSE <<>>)
         \o get_from_cache(rows, start_date + 1, end_date)

\* determine_fetch_ranges with >= in place of > in the later-data test.
determine_fetch_ranges_ge(meta, start_date, end_date) ==
    IF ~meta.exists \/ meta.first_date = NoDate
    THEN << <<start_date, end_date>> >>
    ELSE (IF start_date < meta.first_date
          THEN << <<start_date, meta.first_date - 1>> >> ELSE <<>>)
         \o
         (IF end_date >= meta.last_date
          THEN << <<meta.last_date + 1, end_date>> >> ELSE <<>>)

\* determine_fetch_ranges that emits the later range before the earlier one.
determine_fetch_ranges_later_first(meta, start_date, end_date) ==
    IF ~meta.exists \/ meta.first_date = NoDate
    THEN << <<start_date, end_date>> >>
    ELSE (IF end_date > meta.last_date
          THEN << <<meta.last_date + 1, end_date>> >> ELSE <<>>)
         \o
         (IF start_date < meta.first_date
          THEN << <<start_date, meta.first_date - 1>> >> ELSE <<>>)

\* determine_fetch_ranges whose earlier range runs up to cached_first itself.
determine_fetch_ranges_no_gap(meta, start_date, end_date) ==
    IF ~meta.exists \/ meta.first_date = NoDate
    THEN << <<start_date, end_date>> >>
    ELSE (IF start_date < meta.first_date
          THEN << <<start_date, meta.first_date>> >> ELSE <<>>)
         \o
         (IF end_date > meta.last_date
          THEN << <<meta.last_date + 1, end_date>> >> ELSE <<>>)

\* determine_fetch_ranges that asks for the whole request when the coverage
\* holds fewer rows than days.
determine_fetch_ranges_fill_gaps(meta, start_date, end_date) ==
    IF ~meta.exists \/ meta.first_date = NoDate
    THEN << <<start_date, end_date>> >>
    ELSE IF meta.total_bars < meta.last_date - meta.first_date + 1
    THEN << <<start_date, end_date>> >>
    ELSE (IF start_date < meta.first_date
          THEN << <<start_date, meta.first_date - 1>> >> ELSE <<>>)
         \o
         (IF end_date > meta.last_date
          THEN << <<meta.last_date + 1, end_date>> >> ELSE <<>>)

\* The ranges get_bars still has to fetch.
determine_fetch_ranges(meta, start_date, end_date) ==
    IF ~meta.exists \/ meta.first_date = NoDate
    THEN << <<start_date, end_date>> >>
    ELSE (IF start_date < meta.first_date
          THEN << <<start_date, meta.first_date - 1>> >> ELSE <<>>)
         \o
         (IF end_date > meta.last_date
          THEN << <<meta.last_date + 1, end_date>> >> ELSE <<>>)


\* _invalidate_range: delete the rows of [start, end], then _update_metadata.
invalidate_range(rows, meta, start_date, end_date) ==
    LET kept == delete_range(rows, start_date, end_date)
    IN [rows |-> kept,
        meta |-> update_metadata(kept, meta),
        count |-> CountRows(rows) - CountRows(kept)]

\* _fetch_and_store once the fetcher has returned bars: nothing is stored and
\* the metadata is left alone when the list is empty.
fetch_and_store(rows, meta, bars, tz) ==
    IF bars = <<>> THEN [rows |-> rows, meta |-> meta]
    ELSE LET stored == store_bars(rows, bars, tz)
         IN [rows |-> stored, meta |-> update_metadata(stored, meta)]

\* --------------------------------------------------------------- get_bars
\* The frame of a get_bars call of one thread.  Every statement that reads
\* or commits to the database, and the wait for the upstream, is a step of
\* its own: each opens a connection of its own (db.get_connection) and no
\* lock is held between them.
\*   pc "select", "upsert": _update_metadata (row: what its SELECT read);
\*   pc "determine": the SELECT of _determine_fetch_ranges;
\*   pc "fetch", "retry": fetch_func for the next missing range, for the
\*      full range; pc "store": _store_bars of the answer (bars);
\*   then: where the call goes on after _update_metadata.
NoCoverage == [first_date |-> NoDate, last_date |-> NoDate, total |-> 0]

IdleCall == [pc |-> "idle", ticker |-> "AAPL", start |-> 1, end |-> 1,
             force |-> FALSE, ranges |-> <<>>, fetches |-> <<>>,
             err |-> NoErr, result |-> <<>>,
             pre_count |-> 0, pre_meta |-> NoRow,
             bars |-> <<>>, row |-> NoCoverage, then |-> "idle"]

\* Where the loop over the missing ranges goes on: the next range, or the
\* read of the result.
loop_next(ranges) == IF ranges = <<>> THEN "read" ELSE "fetch"

\* A write of the call ends with one of D: "committed", or "locked" when
\* sqlite3 raises OperationalError and nothing is written.  Where the
\* exception of _store_bars or of the upsert of _update_metadata goes: in
\* the _fetch_and_store of the full-range retry it is logged and the loop
\* goes on with the next range; in that of a missing range it matches
\* neither '403' nor 'NOT_AUTHORIZED' and is re-raised; in _invalidate_range
\* it stands outside every try.
statement_locked(f) ==
    IF f.fetches # <<>> /\ f.fetches[Len(f.fetches)].kind = "full"
    THEN [f EXCEPT !.ranges = Tail(f.ranges),
                   !.pc = loop_next(Tail(f.ranges)), !.then = "idle",
                   !.bars = <<>>, !.row = NoCoverage]
    ELSE [f EXCEPT !.pc = "raised", !.err = DatabaseLocked, !.then = "idle",
                   !.bars = <<>>, !.row = NoCoverage]

\* The call of get_bars up to its first statement on the database: the
\* DELETE of _invalidate_range and its commit (ending with one of D) for a
\* forced call, the SELECT of _determine_fetch_ranges otherwise.
\* pre_count and pre_meta remember the symbol's number of rows and its
\* metadata row as the call found them.
BeginGetBars(p, ticker, start_date, end_date, force_refresh, D) ==
    LET f == [IdleCall EXCEPT !.ticker = ticker, !.start = start_date,
                              !.end = end_date, !.force = force_refresh,
                              !.pre_count = CountRows(daily_bars[ticker]),
                              !.pre_meta = ticker_metadata[ticker]]
        ranges == determine_fetch_ranges(ticker_metadata[ticker],
                                         start_date, end_date)
    IN IF force_refresh
       THEN /\ \E d \in D :
                 IF d = "committed"
                 THEN /\ daily_bars' = [daily_bars EXCEPT ![ticker] =
                                           delete_range(daily_bars[ticker],
                                                        start_date, end_date)]
                      /\ call' = [call EXCEPT ![p] =
                            [f EXCEPT !.pc = "select", !.then = "determine"]]
                 ELSE /\ UNCHANGED daily_bars
                      /\ call' = [call EXCEPT ![p] =
                            [f EXCEPT !.pc = "raised", !.err = DatabaseLocked]]
            /\ UNCHANGED ticker_metadata
       ELSE /\ UNCHANGED <<daily_bars, ticker_metadata>>
            /\ call' = [call EXCEPT ![p] =
                          [f EXCEPT !.ranges = ranges,
                                    !.pc = loop_next(ranges)]]

\* _update_metadata: the SELECT of MIN(date), MAX(date), COUNT(*) and
\* cursor.fetchone(); without a row there is no upsert.
SelectCoverage(p) ==
    LET f == call[p]
        row == select_coverage(daily_bars[f.ticker])
    IN /\ f.pc = "select"
       /\ call' = [call EXCEPT ![p] =
            IF row.first_date # NoDate
            THEN [f EXCEPT !.pc = "upsert", !.row = row]
            ELSE [f EXCEPT !.pc = f.then, !.then = "idle"]]
       /\ UNCHANGED <<daily_bars, ticker_metadata>>

\* _update_metadata: the upsert of the row read before, and the commit,
\* ending with one of D.
UpsertMetadata(p, D) ==
    LET f == call[p]
    IN /\ f.pc = "upsert"
       /\ \E d \in D :
            IF d = "committed"
            THEN /\ ticker_metadata' = [ticker_metadata EXCEPT ![f.ticker] =
                        upsert_metadata(ticker_metadata[f.ticker], f.row)]
                 /\ call' = [call EXCEPT ![p] =
                        [f EXCEPT !.pc = f.then, !.then = "idle",
                                  !.row = NoCoverage]]
            ELSE /\ UNCHANGED ticker_metadata
                 /\ call' = [call EXCEPT ![p] = statement_locked(f)]
       /\ UNCHANGED daily_bars

\* _determine_fetch_ranges of a forced call, after the invalidation.
DetermineRanges(p) ==
    LET f == call[p]
        ranges == determine_fetch_ranges(ticker_metadata[f.ticker],
                                         f.start, f.end)
    IN /\ f.pc = "determine"
       /\ call' = [call EXCEPT ![p] =
            [f EXCEPT !.ranges = ranges, !.pc = loop_next(ranges)]]
       /\ UNCHANGED <<daily_bars, ticker_metadata>>

\* _fetch_and_store once the upstream has answered with bars: with an empty
\* list it returns 0 and the call goes on, else _store_bars comes next.
answered(f, bars, then) ==
    IF bars = <<>>
    THEN [f EXCEPT !.pc = then]
    ELSE [f EXCEPT !.pc = "store", !.bars = bars, !.then = then]

\* One pass of the loop body up to the upstream's answer: fetch_func for the
\* next missing range.  A failure whose message matches '403' or
\* 'NOT_AUTHORIZED' leads to the full-range retry, any other failure is
\* re-raised.  R: what the upstream may answer.
FetchRange(p, R) ==
    LET f == call[p]
        r == Head(f.ranges)
    IN /\ f.pc = "fetch"
       /\ \E resp \in R :
            LET logged == [f EXCEPT !.fetches = Append(f.fetches,
                                 [start |-> r[1], end |-> r[2], resp |-> resp,
                                  kind |-> "range"])]
            IN call' = [call EXCEPT ![p] =
                 IF resp = NoErr
                 THEN answered([logged EXCEPT !.ranges = Tail(f.ranges)],
                               fetch_aggregate_bars(f.ticker, r[1], r[2]),
                               loop_next(Tail(f.ranges)))
                 ELSE IF MatchesAuth(resp)
                 THEN [logged EXCEPT !.pc = "retry"]
                 ELSE [logged EXCEPT !.pc = "raised", !.err = resp]]
       /\ UNCHANGED <<daily_bars, ticker_metadata>>

\* The fallback that re-raises the failure of the full-range fetch.
FetchFullRange_reraise(p, R) ==
    LET f == call[p]
    IN /\ f.pc = "retry"
       /\ \E resp \in R :
            LET logged == [f EXCEPT !.fetches = Append(f.fetches,
                                 [start |-> f.start, end |-> f.end, resp |-> resp,
                                  kind |-> "full"])]
            IN call' = [call EXCEPT ![p] =
                 IF resp = NoErr
                 THEN answered(logged,
                               fetch_aggregate_bars(f.ticker, f.start, f.end),
                               "read")
                 ELSE [logged EXCEPT !.pc = "raised", !.err = resp]]
       /\ UNCHANGED <<daily_bars, ticker_metadata>>

\* The fallback without its break: after a successful full-range fetch the
\* loop goes on with the remaining ranges.
FetchFullRange_no_break(p, R) ==
    LET f == call[p]
    IN /\ f.pc = "retry"
       /\ \E resp \in R :
            LET logged == [f EXCEPT !.fetches = Append(f.fetches,
                                 [start |-> f.start, end |-> f.end, resp |-> resp,
                                  kind |-> "full"]),
                                    !.ranges = Tail(f.ranges)]
            IN call' = [call EXCEPT ![p] =
                 IF resp = NoErr
                 THEN answered(logged,
                               fetch_aggregate_bars(f.ticker, f.start, f.end),
                               loop_next(Tail(f.ranges)))
                 ELSE [logged EXCEPT !.pc = loop_next(Tail(f.ranges))]]
       /\ UNCHANGED <<daily_bars, ticker_metadata>>

\* The fallback up to the upstream's answer: fetch_func for the full
\* requested range.  Success breaks out of the loop (once the answer is
\* stored); any failure is logged and the loop goes on.
FetchFullRange(p, R) ==
    LET f == call[p]
    IN /\ f.pc = "retry"
       /\ \E resp \in R :
            LET logged == [f EXCEPT !.fetches = Append(f.fetches,
                                 [start |-> f.start, end |-> f.end, resp |-> resp,
                                  kind |-> "full"])]
            IN call' = [call EXCEPT ![p] =
                 IF resp = NoErr
                 THEN answered(logged,
                               fetch_aggregate_bars(f.ticker, f.start, f.end),
                               "read")
                 ELSE [logged EXCEPT !.ranges = Tail(f.ranges),
                                     !.pc = loop_next(Tail(f.ranges))]]
       /\ UNCHANGED <<daily_bars, ticker_metadata>>

\* count = self._store_bars(ticker, bars): the INSERT OR REPLACE of every
\* bar and the commit, ending with one of D; after the commit
\* _update_metadata comes next.
StoreFetched(p, D) ==
    LET f == call[p]
    IN /\ f.pc = "store"
       /\ \E d \in D :
            IF d = "committed"
            THEN /\ daily_bars' = [daily_bars EXCEPT ![f.ticker] =
                        store_bars(daily_bars[f.ticker], f.bars, tz_offset)]
                 /\ call' = [call EXCEPT ![p] =
                        [f EXCEPT !.pc = "select", !.bars = <<>>]]
            ELSE /\ UNCHANGED daily_bars
                 /\ call' = [call EXCEPT ![p] = statement_locked(f)]
       /\ UNCHANGED ticker_metadata

\* return self._get_from_cache(ticker, start_date, end_date)
ReadBack(p) ==
    LET f == call[p]
    IN /\ f.pc = "read"
       /\ call' = [call EXCEPT ![p] =
            [f EXCEPT !.pc = "returned",
                      !.result = get_from_cache(daily_bars[f.ticker],
                                                f.start, f.end)]]
       /\ UNCHANGED <<daily_bars, ticker_metadata>>

\* ------------------------------------------- the synchronous cache API
\* last_op: the operation of the API called last (op, ticker, start, end,
\* bars: its arguments), what it returned (count, result) and the symbol's
\* rows and metadata row as the operation found them.  Of a get_bars call,
\* whose details are in its call frame, only the arguments are kept.
NoOp == [op |-> "none", ticker |-> "AAPL", start |-> 1, end |-> 1,
         bars |-> <<>>, count |-> 0, result |-> <<>>,
         rows_before |-> NoBars, meta_before |-> NoRow]

\* The thread that calls the store's operations has no call under way.
NoSyncCall == call[SyncProc].pc \in {"idle", "returned", "raised"}

\* A request thread calls get_bars (fetch_aggregate_bars_cached, or with
\* force_refresh through the CacheManager API).
CallGetBars(ticker, s, e, force) ==
    /\ NoSyncCall
    /\ s <= e
    /\ BeginGetBars(SyncProc, ticker, s, e, force, {"committed"})
    /\ last_op' = [NoOp EXCEPT !.op = "get_bars", !.ticker = ticker,
                               !.start = s, !.end = e]
    /\ UNCHANGED <<tz_offset, writer, putcallVars, adjusted_close, policy, sp500_constituents, list_age, status_call, other_store>>
    /\ UNCHANGED jobVars

GetBars ==
    \E ticker \in SyncTickers, s \in ReqDates, e \in ReqDates, force \in BOOLEAN :
        CallGetBars(ticker, s, e, force)

\* fetch_aggregate_bars_cached: get_bars without force_refresh.
CachedGetBars ==
    \E ticker \in SyncTickers, s \in ReqDates, e \in ReqDates :
        CallGetBars(ticker, s, e, FALSE)

\* The fetch of the next missing range, answered with bars.
SyncFetchRangeOK ==
    FetchRange(SyncProc, {NoErr}) /\ UNCHANGED <<tz_offset, writer, putcallVars, adjusted_close, policy, last_op, sp500_constituents, list_age, status_call, other_store>> /\ UNCHANGED jobVars

\* The provider revises its history: from now on it reports another
\* adjusted close for the same bars.
Revise ==
    /\ adjusted_close = OriginalClose
    /\ adjusted_close' = RevisedClose
    /\ UNCHANGED <<daily_bars, ticker_metadata, tz_offset, writer, putcallVars, policy, call, last_op,
                   sp500_constituents, list_age, status_call, other_store>>
    /\ UNCHANGED jobVars

SyncFetchRange ==
    FetchRange(SyncProc, Responses) /\ UNCHANGED <<tz_offset, writer, putcallVars, adjusted_close, policy, last_op, sp500_constituents, list_age, status_call, other_store>> /\ UNCHANGED jobVars

SyncFetchFullRange ==
    FetchFullRange(SyncProc, Responses) /\ UNCHANGED <<tz_offset, writer, putcallVars, adjusted_close, policy, last_op, sp500_constituents, list_age, status_call, other_store>> /\ UNCHANGED jobVars

\* The steps of _store_bars and _update_metadata of the request thread's call.
SyncStoreFetched ==
    StoreFetched(SyncProc, {"committed"}) /\ UNCHANGED <<tz_offset, writer, putcallVars, adjusted_close, policy, last_op, sp500_constituents, list_age, status_call, other_store>> /\ UNCHANGED jobVars

SyncSelectCoverage ==
    SelectCoverage(SyncProc) /\ UNCHANGED <<tz_offset, writer, putcallVars, adjusted_close, policy, last_op, sp500_constituents, list_age, status_call, other_store>> /\ UNCHANGED jobVars

SyncUpsertMetadata ==
    UpsertMetadata(SyncProc, {"committed"}) /\ UNCHANGED <<tz_offset, writer, putcallVars, adjusted_close, policy, last_op, sp500_constituents, list_age, status_call, other_store>> /\ UNCHANGED jobVars

SyncDetermineRanges ==
    DetermineRanges(SyncProc) /\ UNCHANGED <<tz_offset, writer, putcallVars, adjusted_close, policy, last_op, sp500_constituents, list_age, status_call, other_store>> /\ UNCHANGED jobVars

SyncReadBack ==
    ReadBack(SyncProc) /\ UNCHANGED <<tz_offset, writer, putcallVars, adjusted_close, policy, last_op, sp500_constituents, list_age, status_call, other_store>> /\ UNCHANGED jobVars

\* invalidate_ticker that forgets to delete the metadata row.
invalidate_ticker_keep_metadata(rows, meta) ==
    [rows |-> NoBars, meta |-> meta, count |-> CountRows(rows)]

\* invalidate_ticker: count is the COUNT(*) of its SELECT; rows and meta are
\* what its two DELETE statements, committed together, leave.
invalidate_ticker(rows, meta) ==
    [rows |-> NoBars, meta |-> NoRow, count |-> CountRows(rows)]

\* get_cache_status: the dict made of the symbol's metadata row, which has
\* no key for last_full_refresh, or None (NoRow) without a row.
get_cache_status(meta) ==
    IF meta.exists THEN [meta EXCEPT !.last_full_refresh = NoTime] ELSE NoRow

\* invalidate_ticker up to its SELECT COUNT(*), which is read outside the
\* transaction of the DELETE statements: last_op.count is what it returns.
InvalidateTicker ==
    /\ NoSyncCall
    /\ \E ticker \in SyncTickers :
         LET r == invalidate_ticker(daily_bars[ticker], ticker_metadata[ticker])
         IN /\ last_op' = [NoOp EXCEPT !.op = "invalidate_ticker",
                                       !.ticker = ticker, !.count = r.count,
                                       !.rows_before = daily_bars[ticker],
                                       !.meta_before = ticker_metadata[ticker]]
            /\ call' = [call EXCEPT ![SyncProc] =
                           [IdleCall EXCEPT !.ticker = ticker, !.pc = "delete"]]
    /\ UNCHANGED <<daily_bars, ticker_metadata>>
    /\ UNCHANGED <<tz_offset, writer, putcallVars, adjusted_close, policy, sp500_constituents, list_age, status_call, other_store>>
    /\ UNCHANGED jobVars

\* invalidate_ticker whose DELETE statements have no WHERE clause.
DeleteTicker_all_symbols ==
    LET f == call[SyncProc]
        r == invalidate_ticker(daily_bars[f.ticker], ticker_metadata[f.ticker])
    IN /\ f.pc = "delete"
       /\ daily_bars' = [t \in Tickers |-> r.rows]
       /\ ticker_metadata' = [t \in Tickers |-> r.meta]
       /\ call' = [call EXCEPT ![SyncProc] = [f EXCEPT !.pc = "idle"]]
       /\ UNCHANGED last_op
       /\ UNCHANGED <<tz_offset, writer, putcallVars, adjusted_close, policy, sp500_constituents, list_age, status_call, other_store>>
       /\ UNCHANGED jobVars

\* invalidate_ticker: DELETE FROM daily_bars, DELETE FROM ticker_metadata
\* WHERE ticker = ?, and the commit.
DeleteTicker ==
    LET f == call[SyncProc]
        r == invalidate_ticker(daily_bars[f.ticker], ticker_metadata[f.ticker])
    IN /\ f.pc = "delete"
       /\ daily_bars' = [daily_bars EXCEPT ![f.ticker] = r.rows]
       /\ ticker_metadata' = [ticker_metadata EXCEPT ![f.ticker] = r.meta]
       /\ call' = [call EXCEPT ![SyncProc] = [f EXCEPT !.pc = "idle"]]
       /\ UNCHANGED last_op
       /\ UNCHANGED <<tz_offset, writer, putcallVars, adjusted_close, policy, sp500_constituents, list_age, status_call, other_store>>
       /\ UNCHANGED jobVars

\* ------------------------------------------------ the store's operations
\* The close values a bar can carry (the provider revises adjusted prices).
Values == {1, 2}
\* The bars a fetch function can return for the dates of the model.
Bars == {[t |-> d * HoursPerDay + EasternMidnightUTC, c |-> v] :
            d \in ReqDates, v \in Values}
\* The bar lists stored: empty, one bar, two bars (in any order, possibly of
\* the same day).
BarLists == {<<>>} \cup {<<b>> : b \in Bars}
                  \cup {<<a, b>> : a \in Bars, b \in Bars}

\* _fetch_and_store up to the answer of a fetch function that returns bars;
\* _store_bars and the two statements of _update_metadata follow as steps
\* of the call's frame.  last_op.count: the len(bars) it returns.
StoreBars ==
    /\ NoSyncCall
    /\ \E ticker \in SyncTickers, bars \in BarLists :
          /\ last_op' = [NoOp EXCEPT !.op = "store", !.ticker = ticker,
                                     !.bars = bars, !.count = Len(bars),
                                     !.rows_before = daily_bars[ticker],
                                     !.meta_before = ticker_metadata[ticker]]
          /\ call' = [call EXCEPT ![SyncProc] =
                         answered([IdleCall EXCEPT !.ticker = ticker],
                                  bars, "idle")]
    /\ UNCHANGED <<daily_bars, ticker_metadata>>
    /\ UNCHANGED <<tz_offset, writer, putcallVars, adjusted_close, policy, sp500_constituents, list_age, status_call, other_store>>
    /\ UNCHANGED jobVars

\* _invalidate_range(ticker, start_date, end_date) up to the commit of its
\* DELETE; the statements of _update_metadata follow as steps of the
\* call's frame.  last_op.count: the cursor.rowcount it returns.
InvalidateRange ==
    /\ NoSyncCall
    /\ \E ticker \in SyncTickers, s \in ReqDates, e \in ReqDates :
          LET kept == delete_range(daily_bars[ticker], s, e)
          IN /\ s <= e
             /\ last_op' = [NoOp EXCEPT !.op = "invalidate_range",
                               !.ticker = ticker, !.start = s, !.end = e,
                               !.count = CountRows(daily_bars[ticker])
                                           - CountRows(kept),
                               !.rows_before = daily_bars[ticker],
                               !.meta_before = ticker_metadata[ticker]]
             /\ daily_bars' = [daily_bars EXCEPT ![ticker] = kept]
             /\ call' = [call EXCEPT ![SyncProc] =
                            [IdleCall EXCEPT !.ticker = ticker, !.start = s,
                                             !.end = e, !.pc = "select",
                                             !.then = "idle"]]
    /\ UNCHANGED ticker_metadata
    /\ UNCHANGED <<tz_offset, writer, putcallVars, adjusted_close, policy, sp500_constituents, list_age, status_call, other_store>>
    /\ UNCHANGED jobVars

\* _get_from_cache(ticker, start_date, end_date)
ReadRange ==
    \E ticker \in SyncTickers, s \in ReqDates, e \in ReqDates :
        /\ NoSyncCall
        /\ s <= e
        /\ last_op' = [NoOp EXCEPT !.op = "read", !.ticker = ticker,
                                   !.start = s, !.end = e,
                                   !.result = get_from_cache(daily_bars[ticker], s, e),
                                   !.rows_before = daily_bars[ticker],
                                   !.meta_before = ticker_metadata[ticker]]
        /\ UNCHANGED <<daily_bars, ticker_metadata, tz_offset, writer, putcallVars, adjusted_close, policy, call,
                       sp500_constituents, list_age, status_call, other_store>>
        /\ UNCHANGED jobVars

\* ------------------------------------------------ the constituent list
\* sp500_constituents is the table as get_cached_sp500_constituents reads
\* it (ORDER BY ticker); list_age is the age in days of
\* sp500_list_metadata.last_refreshed, NoAge without that row.
SP500_LIST_REFRESH_DAYS == 7
NoAge == -1

\* _get_fallback_sp500_list: the static list, which is in the order of
\* ORDER BY ticker.
FallbackList == <<
    "A", "AAL", "AAPL", "ABBV", "ABNB", "ABT", "ACGL", "ACN",
    "ADBE", "ADI", "ADM", "ADP", "ADSK", "AEE", "AEP", "AES",
    "AFL", "AIG", "AIZ", "AJG", "AKAM", "ALB", "ALGN", "ALL",
    "ALLE", "AMAT", "AMCR", "AMD", "AME", "AMGN", "AMP", "AMT",
    "AMZN", "ANET", "ANSS", "AON", "AOS", "APA", "APD", "APH",
    "APTV", "ARE", "ATO", "AVB", "AVGO", "AVY", "AWK", "AXON",
    "AXP", "AZO", "BA", "BAC", "BALL", "BAX", "BBWI", "BBY",
    "BDX", "BEN", "BF.B", "BG", "BIIB", "BIO", "BK", "BKNG",
    "BKR", "BLDR", "BLK", "BMY", "BR", "BRK.B", "BRO", "BSX",
    "BWA", "BX", "BXP", "C", "CAG", "CAH", "CARR", "CAT",
    "CB", "CBOE", "CBRE", "CCI", "CCL", "CDNS", "CDW", "CE",
    "CEG", "CF", "CFG", "CHD", "CHRW", "CHTR", "CI", "CINF",
    "CL", "CLX", "CMCSA", "CME", "CMG", "CMI", "CMS", "CNC",
    "CNP", "COF", "COO", "COP", "COR", "COST", "CPAY", "CPB",
    "CPRT", "CPT", "CRL", "CRM", "CRWD", "CSCO", "CSGP", "CSX",
    "CTAS", "CTLT", "CTRA", "CTSH", "CTVA", "CVS", "CVX", "CZR",
    "D", "DAL", "DAY", "DD", "DE", "DECK", "DFS", "DG",
    "DGX", "DHI", "DHR", "DIS", "DLR", "DLTR", "DOC", "DOV",
    "DOW", "DPZ", "DRI", "DTE", "DUK", "DVA", "DVN", "DXCM",
    "EA", "EBAY", "ECL", "ED", "EFX", "EG", "EIX", "EL",
    "ELV", "EMN", "EMR", "ENPH", "EOG", "EPAM", "EQIX", "EQR",
    "EQT", "ES", "ESS", "ETN", "ETR", "ETSY", "EVRG", "EW",
    "EXC", "EXPD", "EXPE", "EXR", "F", "FANG", "FAST", "FCX",
    "FDS", "FDX", "FE", "FFIV", "FI", "FICO", "FIS", "FITB",
    "FLT", "FMC", "FOX", "FOXA", "FRT", "FSLR", "FTNT", "FTV",
    "GD", "GDDY", "GE", "GEHC", "GEN", "GEV", "GILD", "GIS",
    "GL", "GLW", "GM", "GNRC", "GOOG", "GOOGL", "GPC", "GPN",
    "GRMN", "GS", "GWW", "HAL", "HAS", "HBAN", "HCA", "HD",
    "HES", "HIG", "HII", "HLT", "HOLX", "HON", "HPE", "HPQ",
    "HRL", "HSIC", "HST", "HSY", "HUBB", "HUM", "HWM", "IBM",
    "ICE", "IDXX", "IEX", "IFF", "ILMN", "INCY", "INTC", "INTU",
    "INVH", "IP", "IPG", "IQV", "IR", "IRM", "ISRG", "IT",
    "ITW", "IVZ", "J", "JBHT", "JBL", "JCI", "JKHY", "JNJ",
    "JNPR", "JPM", "K", "KDP", "KEY", "KEYS", "KHC", "KIM",
    "KKR", "KLAC", "KMB", "KMI", "KMX", "KO", "KR", "KVUE",
    "L", "LDOS", "LEN", "LH", "LHX", "LIN", "LKQ", "LLY",
    "LMT", "LNT", "LOW", "LRCX", "LULU", "LUV", "LVS", "LW",
    "LYB", "LYV", "MA", "MAA", "MAR", "MAS", "MCD", "MCHP",
    "MCK", "MCO", "MDLZ", "MDT", "MET", "META", "MGM", "MHK",
    "MKC", "MKTX", "MLM", "MMC", "MMM", "MNST", "MO", "MOH",
    "MOS", "MPC", "MPWR", "MRK", "MRNA", "MRO", "MS", "MSCI",
    "MSFT", "MSI", "MTB", "MTCH", "MTD", "MU", "NCLH", "NDAQ",
    "NDSN", "NEE", "NEM", "NFLX", "NI", "NKE", "NOC", "NOW",
    "NRG", "NSC", "NTAP", "NTRS", "NUE", "NVDA", "NVR", "NWS",
    "NWSA", "NXPI", "O", "ODFL", "OKE", "OMC", "ON", "ORCL",
    "ORLY", "OTIS", "OXY", "PANW", "PARA", "PAYC", "PAYX", "PCAR",
    "PCG", "PEG", "PEP", "PFE", "PFG", "PG", "PGR", "PH",
    "PHM", "PKG", "PLD", "PM", "PNC", "PNR", "PNW", "PODD",
    "POOL", "PPG", "PPL", "PRU", "PSA", "PSX", "PTC", "PWR",
    "PYPL", "QCOM", "QRVO", "RCL", "REG", "REGN", "RF", "RJF",
    "RL", "RMD", "ROK", "ROL", "ROP", "ROST", "RSG", "RTX",
    "RVTY", "SBAC", "SBUX", "SCHW", "SHW", "SJM", "SLB", "SMCI",
    "SNA", "SNPS", "SO", "SOLV", "SPG", "SPGI", "SRE", "STE",
    "STLD", "STT", "STX", "STZ", "SWK", "SWKS", "SYF", "SYK",
    "SYY", "T", "TAP", "TDG", "TDY", "TECH", "TEL", "TER",
    "TFC", "TFX", "TGT", "TJX", "TMO", "TMUS", "TPR", "TRGP",
    "TRMB", "TROW", "TRV", "TSCO", "TSLA", "TSN", "TT", "TTWO",
    "TXN", "TXT", "TYL", "UAL", "UBER", "UDR", "UHS", "ULTA",
    "UNH", "UNP", "UPS", "URI", "USB", "V", "VFC", "VICI",
    "VLO", "VLTO", "VMC", "VRSK", "VRSN", "VRTX", "VST", "VTR",
    "VTRS", "VZ", "WAB", "WAT", "WBA", "WBD", "WDC", "WEC",
    "WELL", "WFC", "WM", "WMB", "WMT", "WRB", "WST", "WTW",
    "WY", "WYNN", "XEL", "XOM", "XYL", "YUM", "ZBH", "ZBRA",
    "ZTS">>

\* The position of a symbol in ORDER BY ticker, for the symbols of the
\* static list.
TickerRank ==
    [t \in {FallbackList[i] : i \in DOMAIN FallbackList} |->
        CHOOSE i \in DOMAIN FallbackList : FallbackList[i] = t]
\* SELECT ticker FROM sp500_constituents ORDER BY ticker, of the rows
\* inserted from a fetched list.
order_by_ticker(tickers) ==
    SortSeq(tickers, LAMBDA a, b : TickerRank[a] < TickerRank[b])

\* fetch_sp500_from_wikipedia: the symbols in the order of the page's table,
\* [] when the request or the parsing fails.
WikipediaLists == {<<"AAPL">>, <<"MSFT">>, <<"MSFT", "AAPL">>}
WikipediaAnswers == {<<>>} \cup WikipediaLists

\* refresh_sp500_constituents(force) goes on to fetch from Wikipedia when
\* it is forced, and otherwise unless last_refreshed is set and less than
\* SP500_LIST_REFRESH_DAYS old.
refresh_due(force, age) ==
    force \/ ~(age # NoAge /\ age < SP500_LIST_REFRESH_DAYS)

\* refresh_sp500_constituents(force) by one thread alone: the table and the
\* age of its last refresh afterwards.  A failed fetch keeps the existing
\* list.
refresh_sp500_constituents(force, list, age, answer) ==
    IF refresh_due(force, age) /\ answer # <<>>
    THEN [list |-> order_by_ticker(answer), age |-> 0]
    ELSE [list |-> list, age |-> age]

\* cached = get_cached_sp500_constituents(); if cached: return cached;
\* return _get_fallback_sp500_list()
cached_or_fallback(list) == IF list # <<>> THEN list ELSE FallbackList

\* get_sp500_constituents(refresh_if_stale) by one thread alone: the refresh
\* is asked for with force=False.
get_sp500_constituents(refresh_if_stale, list, age, answer) ==
    cached_or_fallback(
        IF refresh_if_stale
        THEN refresh_sp500_constituents(FALSE, list, age, answer).list
        ELSE list)

\* A call of get_sp500_constituents(), as every caller makes it (with
\* refresh_if_stale left at True), is followed in the caller's frame:
\* pc "list_wait": the age test found a refresh due and the request to
\* Wikipedia is under way; pc "list_replace": the transaction that replaces
\* the table by the list fetched (fetched) is to come; pc "list_read": the
\* read of the table into the caller's local tickers is to come.
\* Where the call goes after the age test (get_sp500_list_metadata).
after_age_test(age) ==
    IF refresh_due(FALSE, age) THEN "list_wait" ELSE "list_read"
\* Where the call goes once Wikipedia has answered.
after_answer(answer) == IF answer # <<>> THEN "list_replace" ELSE "list_read"

\* Time passes: the list is a week older.
WeekPasses ==
    /\ list_age # NoAge
    /\ list_age < SP500_LIST_REFRESH_DAYS
    /\ list_age' = list_age + SP500_LIST_REFRESH_DAYS
    /\ UNCHANGED <<daily_bars, ticker_metadata, tz_offset, writer, putcallVars,
                   adjusted_close, policy, call, last_op, sp500_constituents,
                   status_call, other_store>>
    /\ UNCHANGED jobVars

\* ------------------------------------------------- start_sp500_cache_job
\* The request threads of the Flask server (app.run is threaded).
Callers == {"c1", "c2"}

\* Config.HISTORICAL_START_DATE, and a start_date of the request body that
\* is not an ISO date (start_sp500_cache hands it on unchecked).
HistoricalStart == 1
BadDate == NoDate

IdleReq == [pc |-> "idle", start |-> HistoricalStart, job_id |-> NoJob,
            status |-> "none", returned_job_id |-> NoJob,
            rows_before |-> 0, running_before |-> {},
            fetched |-> <<>>, tickers |-> <<>>]

\* incremental: the argument of cache_all (force_refresh = not incremental);
\* script: the run is that of refresh_cache.py, not of a job thread.
IdleWorker == [pc |-> "none", start |-> HistoricalStart, end |-> MaxDate,
               i |-> 1, success_count |-> 0, fail_count |-> 0,
               failed_tickers |-> <<>>, failed_count |-> 0,
               attempts |-> <<>>,
               fetched |-> <<>>, tickers |-> <<>>, incremental |-> TRUE,
               script |-> FALSE]

NewJobRow(total) == [status |-> "running", tickers_total |-> total,
                     tickers_processed |-> 0, tickers_failed |-> 0]

\* The ids of the cache_jobs rows with status 'running'.
RunningJobs == {j \in 1..Len(cache_jobs) : cache_jobs[j].status = "running"}

\* _job_thread is not None and _job_thread.is_alive()
JobThreadAlive == job_thread # NoJob /\ thread[job_thread] = "alive"

\* Request thread d is past the guard and has not yet inserted its row.
BeforeCreate(d) ==
    req[d].pc \in {"list_check", "list_wait", "list_replace", "list_read",
                    "create"}

\* The guard of start_sp500_cache_job.  rows_before and running_before
\* remember the cache_jobs table as the call found it.
StartCheck(c) ==
    /\ req[c].pc = "idle"
    /\ \/ JobThreadAlive
       \/ Len(cache_jobs) + Cardinality({d \in Callers : BeforeCreate(d)})
            < MaxJobs
    /\ \E start \in {HistoricalStart, BadDate} :
         req' = [req EXCEPT ![c] =
            IF JobThreadAlive
            THEN [IdleReq EXCEPT !.pc = "done", !.start = start,
                                 !.status = "already_running",
                                 !.returned_job_id = current_job_id,
                                 !.rows_before = Len(cache_jobs),
                                 !.running_before = RunningJobs]
            ELSE [IdleReq EXCEPT !.pc = "list_check", !.start = start,
                                 !.rows_before = Len(cache_jobs),
                                 !.running_before = RunningJobs]]
    /\ UNCHANGED <<cache_jobs, job_thread, current_job_id, thread, worker>>
    /\ UNCHANGED storeVars

\* tickers = get_sp500_constituents(), up to the age test of
\* refresh_sp500_constituents: the SELECT on sp500_list_metadata.
ReqListCheck(c) ==
    /\ req[c].pc = "list_check"
    /\ req' = [req EXCEPT ![c].pc = after_age_test(list_age)]
    /\ UNCHANGED <<cache_jobs, job_thread, current_job_id, thread, worker>>
    /\ UNCHANGED storeVars

\* fetch_sp500_from_wikipedia returns: Wikipedia has answered the request
\* with one of W.
ReqListAnswer(c, W) ==
    /\ req[c].pc = "list_wait"
    /\ \E answer \in W :
         req' = [req EXCEPT ![c].pc = after_answer(answer),
                            ![c].fetched = answer]
    /\ UNCHANGED <<cache_jobs, job_thread, current_job_id, thread, worker>>
    /\ UNCHANGED storeVars

\* refresh_sp500_constituents: DELETE FROM sp500_constituents, the INSERTs
\* and the upsert of last_refreshed, committed together.
ReqListReplace(c) ==
    /\ req[c].pc = "list_replace"
    /\ sp500_constituents' = order_by_ticker(req[c].fetched)
    /\ list_age' = 0
    /\ req' = [req EXCEPT ![c].pc = "list_read", ![c].fetched = <<>>]
    /\ UNCHANGED <<daily_bars, ticker_metadata, tz_offset, writer, putcallVars,
                   adjusted_close, policy, call, last_op, status_call, other_store>>
    /\ UNCHANGED <<cache_jobs, job_thread, current_job_id, thread, worker>>

\* cached = get_cached_sp500_constituents(), or the fallback list.
ReqListRead(c) ==
    /\ req[c].pc = "list_read"
    /\ req' = [req EXCEPT ![c].pc = "create",
                          ![c].tickers = cached_or_fallback(sp500_constituents)]
    /\ UNCHANGED <<cache_jobs, job_thread, current_job_id, thread, worker>>
    /\ UNCHANGED storeVars

\* create_cache_job: INSERT a row with status 'running'; lastrowid.
create_cache_job(jobs, tickers_total) == Append(jobs, NewJobRow(tickers_total))

\* job_id = create_cache_job('sp500_full', len(tickers))
CreateJob(c) ==
    /\ req[c].pc = "create"
    /\ cache_jobs' = create_cache_job(cache_jobs, Len(req[c].tickers))
    /\ req' = [req EXCEPT ![c].pc = "assign",
                          ![c].job_id = Len(cache_jobs) + FirstJobId]
    /\ UNCHANGED <<job_thread, current_job_id, thread, worker>>
    /\ UNCHANGED storeVars

\* _job_thread = threading.Thread(target=run_sp500_cache_job, args=(.., job_id))
AssignThread(c) ==
    /\ req[c].pc = "assign"
    /\ job_thread' = req[c].job_id
    /\ thread' = [thread EXCEPT ![req[c].job_id] = "created"]
    /\ worker' = [worker EXCEPT ![req[c].job_id] =
                    [IdleWorker EXCEPT !.start = req[c].start]]
    /\ req' = [req EXCEPT ![c].pc = "start"]
    /\ UNCHANGED <<cache_jobs, current_job_id>>
    /\ UNCHANGED storeVars

\* _job_thread.start(): starts the thread the global refers to now; a thread
\* that was started before raises RuntimeError in the caller.
StartThread(c) ==
    /\ req[c].pc = "start"
    /\ IF thread[job_thread] = "created"
       THEN /\ thread' = [thread EXCEPT ![job_thread] = "alive"]
            /\ worker' = [worker EXCEPT ![job_thread].pc = "begin"]
            /\ req' = [req EXCEPT ![c].pc = "done", ![c].status = "started",
                                  ![c].returned_job_id = req[c].job_id]
       ELSE /\ req' = [req EXCEPT ![c].pc = "done", ![c].status = "error"]
            /\ UNCHANGED <<thread, worker>>
    /\ UNCHANGED <<cache_jobs, job_thread, current_job_id>>
    /\ UNCHANGED storeVars

\* The handler returns the response (409 for 'already_running') and the
\* request thread ends.
Respond(c) ==
    /\ req[c].pc = "done"
    /\ req' = [req EXCEPT ![c] = IdleReq]
    /\ UNCHANGED <<cache_jobs, job_thread, current_job_id, thread, worker>>
    /\ UNCHANGED storeVars

\* --------------------------------------------------- run_sp500_cache_job
Jobs == 1..MaxJobs

\* How a write of the worker thread through get_connection() ends: the
\* statement is committed, or sqlite3 raises OperationalError (database is
\* locked: another connection has held the write lock for the whole of the
\* default timeout of sqlite3.connect) and nothing is written.
WriteOutcomes == {"committed", "locked"}

\* mark_sp500: for every symbol of tickers, INSERT (ticker, is_sp500 = 1)
\* ON CONFLICT DO UPDATE SET is_sp500 = 1 (a row inserted has
\* total_bars = 0): the rows of the symbols of Tickers afterwards.
mark_sp500(meta, tickers) ==
    [t \in Tickers |->
        IF \E i \in DOMAIN tickers : tickers[i] = t
        THEN [meta[t] EXCEPT !.exists = TRUE, !.is_sp500 = TRUE]
        ELSE meta[t]]

\* The same statements for the symbols of tickers outside Tickers.
mark_sp500_others(others, tickers) ==
    LET listed == {tickers[i] : i \in DOMAIN tickers} \ Tickers
    IN [s \in DOMAIN others \cup listed |->
          IF s \in listed
          THEN [other_symbol(others, s) EXCEPT !.meta.exists = TRUE,
                                               !.meta.is_sp500 = TRUE]
          ELSE others[s]]

\* sync_sp500_flags: in one transaction the statements of mark_sp500 for
\* every symbol of current, then UPDATE ticker_metadata SET is_sp500 = 0
\* WHERE is_sp500 = 1 AND ticker NOT IN current: the rows of the symbols of
\* Tickers afterwards.
sync_sp500_flags(meta, current) ==
    [t \in Tickers |->
        IF t \in current
        THEN [meta[t] EXCEPT !.exists = TRUE, !.is_sp500 = TRUE]
        ELSE [meta[t] EXCEPT !.is_sp500 = FALSE]]

\* The same statements for the symbols outside Tickers.
sync_sp500_flags_others(others, current) ==
    [s \in DOMAIN others \cup (current \ Tickers) |->
        IF s \in current
        THEN [other_symbol(others, s) EXCEPT !.meta.exists = TRUE,
                                             !.meta.is_sp500 = TRUE]
        ELSE [others[s] EXCEPT !.meta.is_sp500 = FALSE]]

\* update_job_progress with the two columns swapped.
update_job_progress_swapped(jobs, job_id, processed, failed) ==
    [jobs EXCEPT ![job_id].tickers_processed = failed,
                 ![job_id].tickers_failed = processed]

\* UPDATE cache_jobs SET tickers_processed = ?, tickers_failed = ? WHERE id = ?
update_job_progress(jobs, job_id, processed, failed) ==
    [jobs EXCEPT ![job_id].tickers_processed = processed,
                 ![job_id].tickers_failed = failed]

\* UPDATE cache_jobs SET status = ?, ... WHERE id = ?
complete_job(jobs, job_id, status) ==
    [jobs EXCEPT ![job_id].status = status]

\* self.on_progress(i + 1, len(tickers), ticker): the closure of
\* run_sp500_cache_job updates the job's row with its failed_count, the
\* callback of refresh_cache.py prints the progress.
on_progress(w, jobs, job_id) ==
    IF w.script THEN jobs
    ELSE update_job_progress(jobs, job_id, w.i, w.failed_count)

\* The status run_sp500_cache_job completes the job with after cache_all.
final_status(fail_count) ==
    IF fail_count > 0 THEN "completed_with_errors" ELSE "completed"

\* Where cache_all goes after symbol number i of n, whether its get_bars
\* failed (the except clause swallows the exception) or not: on to the next
\* symbol, or out of the loop after the last one.
after_symbol_abort(i, n, failed) ==
    IF failed THEN "except" ELSE IF i = n THEN "finish" ELSE "attempt"

after_symbol(i, n, failed) == IF i = n THEN "finish" ELSE "attempt"

\* What cache_all does with an exception of the first get_bars of a symbol:
\* TRUE = sleep and retry once, FALSE = record the symbol as failed.
retry_after(e) == MatchesRateLimit(e)

\* _current_job_id = job_id; the run is cache_all(.., incremental=True).
WorkerBegin(j) ==
    /\ thread[j] = "alive" /\ worker[j].pc = "begin"
    /\ current_job_id' = j
    /\ worker' = [worker EXCEPT ![j].pc = "setup", ![j].incremental = TRUE]
    /\ UNCHANGED <<cache_jobs, job_thread, thread, req>>
    /\ UNCHANGED storeVars

\* From the import to the age test in cache_all's
\* get_sp500_constituents(): date.fromisoformat(start_date) raises
\* ValueError for a malformed date before cache_all is entered.
WorkerSetup(j) ==
    /\ thread[j] = "alive" /\ worker[j].pc = "setup"
    /\ worker' = [worker EXCEPT ![j].pc =
                    IF worker[j].start = BadDate THEN "except"
                    ELSE after_age_test(list_age)]
    /\ UNCHANGED <<cache_jobs, job_thread, current_job_id, thread, req>>
    /\ UNCHANGED storeVars

\* Wikipedia has answered the worker's request with one of W.
WorkerListAnswer(j, W) ==
    /\ thread[j] = "alive" /\ worker[j].pc = "list_wait"
    /\ \E answer \in W :
         worker' = [worker EXCEPT ![j].pc = after_answer(answer),
                                  ![j].fetched = answer]
    /\ UNCHANGED <<cache_jobs, job_thread, current_job_id, thread, req>>
    /\ UNCHANGED storeVars

\* The transaction of refresh_sp500_constituents in the worker's call.
WorkerListReplace(j) ==
    /\ thread[j] = "alive" /\ worker[j].pc = "list_replace"
    /\ sp500_constituents' = order_by_ticker(worker[j].fetched)
    /\ list_age' = 0
    /\ worker' = [worker EXCEPT ![j].pc = "list_read", ![j].fetched = <<>>]
    /\ UNCHANGED <<daily_bars, ticker_metadata, tz_offset, writer, putcallVars,
                   adjusted_close, policy, call, last_op, status_call, other_store>>
    /\ UNCHANGED <<cache_jobs, job_thread, current_job_id, thread, req>>

\* tickers = get_sp500_constituents(): the read of the table, or the
\* static fallback list.
WorkerListRead(j) ==
    /\ thread[j] = "alive" /\ worker[j].pc = "list_read"
    /\ worker' = [worker EXCEPT ![j].pc = "mark",
                     ![j].tickers = cached_or_fallback(sp500_constituents)]
    /\ UNCHANGED <<cache_jobs, job_thread, current_job_id, thread, req>>
    /\ UNCHANGED storeVars

\* self.cache_manager.mark_sp500(tickers), whose transaction ends with one
\* of D; then the loop begins.  An exception of mark_sp500 leaves cache_all
\* for the except clause of run_sp500_cache_job (the script has none).
WorkerMark(j, D) ==
    /\ thread[j] = "alive" /\ worker[j].pc = "mark"
    /\ \E d \in D :
         IF d = "committed"
         THEN /\ ticker_metadata' = mark_sp500(ticker_metadata, worker[j].tickers)
              /\ other_store' = mark_sp500_others(other_store, worker[j].tickers)
              /\ worker' = [worker EXCEPT ![j].pc = "attempt", ![j].i = 1]
         ELSE /\ UNCHANGED <<ticker_metadata, other_store>>
              /\ worker' = [worker EXCEPT ![j].pc = "except"]
    /\ UNCHANGED <<daily_bars, tz_offset, writer, putcallVars, adjusted_close, policy, call, last_op, sp500_constituents, list_age, status_call>>
    /\ UNCHANGED <<cache_jobs, job_thread, current_job_id, thread, req>>

\* self.cache_manager.get_bars(ticker, start_date, end_date,
\*                             force_refresh=not incremental):
\* the first call for the symbol, or the one retry after the sleep.
WorkerGetBars(j, D) ==
    /\ thread[j] = "alive" /\ worker[j].pc \in {"attempt", "retry"}
    /\ worker[j].tickers[worker[j].i] \in Tickers
    /\ BeginGetBars(j, worker[j].tickers[worker[j].i], worker[j].start,
                    worker[j].end, ~worker[j].incremental, D)
    /\ worker' = [worker EXCEPT ![j].pc =
                    IF worker[j].pc = "attempt" THEN "in_call" ELSE "in_retry"]
    /\ UNCHANGED <<tz_offset, writer, putcallVars, adjusted_close, policy, last_op, sp500_constituents, list_age, status_call, other_store>>
    /\ UNCHANGED <<cache_jobs, job_thread, current_job_id, thread, req>>

\* The same call of get_bars for a symbol outside Tickers, up to its first
\* statement on the database as in BeginGetBars, on the symbol's rows in
\* other_store.
WorkerOtherSymbol(j, D) ==
    LET w == worker[j]
        t == w.tickers[w.i]
        v == other_symbol(other_store, t)
        f == [IdleCall EXCEPT !.ticker = t, !.start = w.start, !.end = w.end,
                              !.force = ~w.incremental,
                              !.pre_count = CountRows(v.rows),
                              !.pre_meta = v.meta]
        ranges == determine_fetch_ranges(v.meta, w.start, w.end)
    IN /\ thread[j] = "alive" /\ w.pc \in {"attempt", "retry"}
       /\ t \notin Tickers
       /\ IF ~w.incremental
          THEN \E d \in D :
               IF d = "committed"
               THEN /\ other_store' = with_symbol(other_store, t,
                          [v EXCEPT !.rows = delete_range(v.rows, w.start, w.end)])
                    /\ call' = [call EXCEPT ![j] =
                          [f EXCEPT !.pc = "select", !.then = "determine"]]
               ELSE /\ UNCHANGED other_store
                    /\ call' = [call EXCEPT ![j] =
                          [f EXCEPT !.pc = "raised", !.err = DatabaseLocked]]
          ELSE /\ UNCHANGED other_store
               /\ call' = [call EXCEPT ![j] =
                     [f EXCEPT !.ranges = ranges, !.pc = loop_next(ranges)]]
       /\ worker' = [worker EXCEPT ![j].pc =
                       IF w.pc = "attempt" THEN "in_call" ELSE "in_retry"]
       /\ UNCHANGED <<daily_bars, ticker_metadata, tz_offset, writer, putcallVars,
                      adjusted_close, policy, last_op, sp500_constituents,
                      list_age, status_call>>
       /\ UNCHANGED <<cache_jobs, job_thread, current_job_id, thread, req>>

\* The next statement of such a call on the database, as SelectCoverage,
\* UpsertMetadata, DetermineRanges, StoreFetched and ReadBack make it for a
\* symbol of Tickers; the writes end with one of D.
WorkerOtherStatement(j, D) ==
    LET f == call[j]
        v == other_symbol(other_store, f.ticker)
        row == select_coverage(v.rows)
        ranges == determine_fetch_ranges(v.meta, f.start, f.end)
    IN /\ thread[j] = "alive" /\ worker[j].pc \in {"in_call", "in_retry"}
       /\ f.ticker \notin Tickers
       /\ f.pc \in {"select", "upsert", "determine", "store", "read"}
       /\ \E d \in IF f.pc \in {"upsert", "store"} THEN D ELSE {"committed"} :
            IF d = "committed"
            THEN /\ call' = [call EXCEPT ![j] =
                      CASE f.pc = "select" ->
                             IF row.first_date # NoDate
                             THEN [f EXCEPT !.pc = "upsert", !.row = row]
                             ELSE [f EXCEPT !.pc = f.then, !.then = "idle"]
                        [] f.pc = "upsert" ->
                             [f EXCEPT !.pc = f.then, !.then = "idle",
                                       !.row = NoCoverage]
                        [] f.pc = "determine" ->
                             [f EXCEPT !.ranges = ranges,
                                       !.pc = loop_next(ranges)]
                        [] f.pc = "store" ->
                             [f EXCEPT !.pc = "select", !.bars = <<>>]
                        [] f.pc = "read" ->
                             [f EXCEPT !.pc = "returned",
                                       !.result = get_from_cache(v.rows, f.start,
                                                                 f.end)]]
                 /\ other_store' =
                      CASE f.pc = "upsert" ->
                             with_symbol(other_store, f.ticker,
                                 [v EXCEPT !.meta = upsert_metadata(v.meta, f.row)])
                        [] f.pc = "store" ->
                             with_symbol(other_store, f.ticker,
                                 [v EXCEPT !.rows = store_bars(v.rows, f.bars,
                                                               tz_offset)])
                        [] OTHER -> other_store
            ELSE /\ call' = [call EXCEPT ![j] = statement_locked(f)]
                 /\ UNCHANGED other_store
       /\ UNCHANGED <<daily_bars, ticker_metadata, tz_offset, writer, putcallVars,
                      adjusted_close, policy, last_op, sp500_constituents,
                      list_age, status_call>>
       /\ UNCHANGED jobVars

WorkerInCall(j) == thread[j] = "alive" /\ worker[j].pc \in {"in_call", "in_retry"}

WorkerFetchRange(j, R) ==
    /\ WorkerInCall(j)
    /\ FetchRange(j, R)
    /\ UNCHANGED <<tz_offset, writer, putcallVars, adjusted_close, policy, last_op, sp500_constituents, list_age, status_call, other_store>> /\ UNCHANGED jobVars

WorkerFetchFullRange(j, R) ==
    /\ WorkerInCall(j)
    /\ FetchFullRange(j, R)
    /\ UNCHANGED <<tz_offset, writer, putcallVars, adjusted_close, policy, last_op, sp500_constituents, list_age, status_call, other_store>> /\ UNCHANGED jobVars

WorkerStoreFetched(j, D) ==
    /\ WorkerInCall(j) /\ call[j].ticker \in Tickers
    /\ StoreFetched(j, D)
    /\ UNCHANGED <<tz_offset, writer, putcallVars, adjusted_close, policy, last_op, sp500_constituents, list_age, status_call, other_store>> /\ UNCHANGED jobVars

WorkerSelectCoverage(j) ==
    /\ WorkerInCall(j) /\ call[j].ticker \in Tickers
    /\ SelectCoverage(j)
    /\ UNCHANGED <<tz_offset, writer, putcallVars, adjusted_close, policy, last_op, sp500_constituents, list_age, status_call, other_store>> /\ UNCHANGED jobVars

WorkerUpsertMetadata(j, D) ==
    /\ WorkerInCall(j) /\ call[j].ticker \in Tickers
    /\ UpsertMetadata(j, D)
    /\ UNCHANGED <<tz_offset, writer, putcallVars, adjusted_close, policy, last_op, sp500_constituents, list_age, status_call, other_store>> /\ UNCHANGED jobVars

\* _determine_fetch_ranges of a forced call (incremental=False).
WorkerDetermineRanges(j) ==
    /\ WorkerInCall(j) /\ call[j].ticker \in Tickers
    /\ DetermineRanges(j)
    /\ UNCHANGED <<tz_offset, writer, putcallVars, adjusted_close, policy, last_op, sp500_constituents, list_age, status_call, other_store>> /\ UNCHANGED jobVars

WorkerReadBack(j) ==
    /\ WorkerInCall(j) /\ call[j].ticker \in Tickers
    /\ ReadBack(j)
    /\ UNCHANGED <<tz_offset, writer, putcallVars, adjusted_close, policy, last_op, sp500_constituents, list_age, status_call, other_store>> /\ UNCHANGED jobVars

\* The rest of the loop body once get_bars has returned or raised: count the
\* success, or retry a rate-limited first failure, or record the failure;
\* then on_progress(i + 1, len(tickers), ticker), whose UPDATE ends with one
\* of D.  The call of on_progress stands outside the try of the loop body:
\* its exception leaves cache_all, with the symbol counted, for the except
\* clause of run_sp500_cache_job.  The callback of the script only prints.
\* attempts logs every get_bars call of the run with its exception.
WorkerAfterCall(j, D) ==
    LET w == worker[j]
        f == call[j]
        logged == Append(w.attempts, [ticker |-> f.ticker, err |-> f.err])
        n == Len(w.tickers)
        outcomes == IF w.script THEN {"committed"} ELSE D
    IN /\ WorkerInCall(j)
       /\ f.pc \in {"returned", "raised"}
       /\ call' = [call EXCEPT ![j] = IdleCall]
       /\ IF f.pc = "returned"
          THEN \E d \in outcomes :
               IF d = "committed"
               THEN /\ worker' = [worker EXCEPT ![j] =
                         [w EXCEPT !.attempts = logged,
                                   !.success_count = w.success_count + 1,
                                   !.i = w.i + 1,
                                   !.pc = after_symbol(w.i, n, FALSE)]]
                    /\ cache_jobs' = on_progress(w, cache_jobs, j)
               ELSE /\ worker' = [worker EXCEPT ![j] =
                         [w EXCEPT !.attempts = logged,
                                   !.success_count = w.success_count + 1,
                                   !.pc = "except"]]
                    /\ UNCHANGED cache_jobs
          ELSE IF w.pc = "in_call" /\ retry_after(f.err)
          THEN /\ worker' = [worker EXCEPT ![j] =
                    [w EXCEPT !.attempts = logged, !.pc = "retry"]]
               /\ UNCHANGED cache_jobs
          ELSE \E d \in outcomes :
               IF d = "committed"
               THEN /\ worker' = [worker EXCEPT ![j] =
                         [w EXCEPT !.attempts = logged,
                                   !.fail_count = w.fail_count + 1,
                                   !.failed_tickers = Append(w.failed_tickers, f.ticker),
                                   !.i = w.i + 1,
                                   !.pc = after_symbol(w.i, n, TRUE)]]
                    /\ cache_jobs' = on_progress(w, cache_jobs, j)
               ELSE /\ worker' = [worker EXCEPT ![j] =
                         [w EXCEPT !.attempts = logged,
                                   !.fail_count = w.fail_count + 1,
                                   !.failed_tickers = Append(w.failed_tickers, f.ticker),
                                   !.pc = "except"]]
                    /\ UNCHANGED cache_jobs
       /\ UNCHANGED <<daily_bars, ticker_metadata, tz_offset, writer, putcallVars, adjusted_close, policy, last_op,
                       sp500_constituents, list_age, status_call, other_store>>
       /\ UNCHANGED <<job_thread, current_job_id, thread, req>>

\* After cache_all: failed_count = result['fail_count'], then complete_job
\* with 'completed_with_errors' or 'completed', whose UPDATE ends with one
\* of D; its exception is caught by the except clause below it.
WorkerFinish(j, D) ==
    /\ thread[j] = "alive" /\ worker[j].pc = "finish" /\ ~worker[j].script
    /\ \E d \in D :
         IF d = "committed"
         THEN /\ worker' = [worker EXCEPT ![j].failed_count = worker[j].fail_count,
                                          ![j].pc = "finally"]
              /\ cache_jobs' = complete_job(cache_jobs, j,
                                            final_status(worker[j].fail_count))
         ELSE /\ worker' = [worker EXCEPT ![j].failed_count = worker[j].fail_count,
                                          ![j].pc = "except"]
              /\ UNCHANGED cache_jobs
    /\ UNCHANGED <<job_thread, current_job_id, thread, req>>
    /\ UNCHANGED storeVars

\* except Exception: complete_job(job_id, 'failed', str(e)), whose UPDATE
\* ends with one of D; its exception leaves the function through the
\* finally clause and ends the thread, the row as it was.
WorkerExcept(j, D) ==
    /\ thread[j] = "alive" /\ worker[j].pc = "except" /\ ~worker[j].script
    /\ \E d \in D :
         /\ worker' = [worker EXCEPT ![j].pc = "finally"]
         /\ cache_jobs' = IF d = "committed"
                          THEN complete_job(cache_jobs, j, "failed")
                          ELSE cache_jobs
    /\ UNCHANGED <<job_thread, current_job_id, thread, req>>
    /\ UNCHANGED storeVars

\* finally: _current_job_id = None
WorkerFinally(j) ==
    /\ thread[j] = "alive" /\ worker[j].pc = "finally"
    /\ current_job_id' = NoJob
    /\ worker' = [worker EXCEPT ![j].pc = "exit"]
    /\ UNCHANGED <<cache_jobs, job_thread, thread, req>>
    /\ UNCHANGED storeVars

\* The target function has returned: the thread is no longer alive.
WorkerExit(j) ==
    /\ thread[j] = "alive" /\ worker[j].pc = "exit"
    /\ thread' = [thread EXCEPT ![j] = "dead"]
    /\ worker' = [worker EXCEPT ![j] = [IdleWorker EXCEPT !.pc = "dead"]]
    /\ UNCHANGED <<cache_jobs, job_thread, current_job_id, req>>
    /\ UNCHANGED storeVars

\* ------------------------------------------------------ refresh_cache.py
\* main() of the script up to the age test in its own
\* get_sp500_constituents() (line 42): init_db(), the CacheManager, the
\* range from Config.HISTORICAL_START_DATE to today.  The script runs in a
\* process of its own; its frame takes a slot that no job uses.
ScriptMain(j) ==
    /\ cache_jobs = <<>>
    /\ thread[j] = "none" /\ worker[j].pc = "none"
    /\ \A k \in Jobs : thread[k] # "alive"
    /\ thread' = [thread EXCEPT ![j] = "alive"]
    /\ worker' = [worker EXCEPT ![j] =
          [IdleWorker EXCEPT !.script = TRUE,
                             !.pc = IF refresh_due(FALSE, list_age)
                                    THEN "main_wait" ELSE "main_read"]]
    /\ UNCHANGED <<cache_jobs, job_thread, current_job_id, req>>
    /\ UNCHANGED storeVars

\* Wikipedia has answered the request of main()'s call with one of W.
ScriptListAnswer(j, W) ==
    /\ thread[j] = "alive" /\ worker[j].pc = "main_wait"
    /\ \E answer \in W :
         worker' = [worker EXCEPT ![j].pc = IF answer # <<>>
                                            THEN "main_replace" ELSE "main_read",
                                  ![j].fetched = answer]
    /\ UNCHANGED <<cache_jobs, job_thread, current_job_id, thread, req>>
    /\ UNCHANGED storeVars

\* The transaction of refresh_sp500_constituents in the script's call.
ScriptListReplace(j) ==
    /\ thread[j] = "alive" /\ worker[j].pc = "main_replace"
    /\ sp500_constituents' = order_by_ticker(worker[j].fetched)
    /\ list_age' = 0
    /\ worker' = [worker EXCEPT ![j].pc = "main_read", ![j].fetched = <<>>]
    /\ UNCHANGED <<daily_bars, ticker_metadata, tz_offset, writer, putcallVars,
                   adjusted_close, policy, call, last_op, status_call, other_store>>
    /\ UNCHANGED <<cache_jobs, job_thread, current_job_id, thread, req>>

\* tickers = get_sp500_constituents() of main(), whose length is printed;
\* then cacher.cache_all(start_date, end_date, incremental=False).
ScriptListRead(j) ==
    /\ thread[j] = "alive" /\ worker[j].pc = "main_read"
    /\ worker' = [worker EXCEPT ![j].pc = "setup", ![j].incremental = FALSE,
                     ![j].tickers = cached_or_fallback(sp500_constituents)]
    /\ UNCHANGED <<cache_jobs, job_thread, current_job_id, thread, req>>
    /\ UNCHANGED storeVars

\* After cache_all the script prints the result, or the traceback of the
\* exception that left cache_all, and the process ends.
ScriptReport(j) ==
    /\ thread[j] = "alive" /\ worker[j].pc \in {"finish", "except"}
    /\ worker[j].script
    /\ thread' = [thread EXCEPT ![j] = "dead"]
    /\ worker' = [worker EXCEPT ![j] = [IdleWorker EXCEPT !.pc = "dead"]]
    /\ UNCHANGED <<cache_jobs, job_thread, current_job_id, req>>
    /\ UNCHANGED storeVars

\* ------------------------------------------------- the refresh policy
\* RefreshPolicy (backend/cache/refresh.py).  Timestamps are hours, dates
\* are day numbers; the class attributes are the default parameters.
ALWAYS_FETCH_DAYS == 2
ROLLING_WINDOW_DAYS == 90
ROLLING_REFRESH_INTERVAL_DAYS == 7
FULL_REFRESH_INTERVAL_DAYS == 30

\* metadata = None: the symbol has no metadata row.
NoMetadata == [exists |-> FALSE, last_updated |-> NoTime,
               last_full_refresh |-> NoTime]
\* The (None, None) that get_refresh_range returns for 'nothing to fetch'.
NoRange == <<NoDate, NoDate>>

\* date.today() and datetime.now() of the calls considered: noon of day 100.
PolicyToday == 100
PolicyNow == PolicyToday * HoursPerDay + 12

\* mark_full_refresh(ticker): UPDATE ticker_metadata SET last_full_refresh =
\* now WHERE ticker = ?, which changes nothing without a row.
mark_full_refresh(meta, now) ==
    IF meta.exists THEN [meta EXCEPT !.last_full_refresh = now] ELSE meta

\* A call of mark_full_refresh: the UPDATE and its commit.
MarkFullRefresh ==
    /\ NoSyncCall
    /\ \E ticker \in SyncTickers :
         /\ ticker_metadata' =
               [ticker_metadata EXCEPT ![ticker] =
                   mark_full_refresh(ticker_metadata[ticker], PolicyNow)]
         /\ last_op' = [NoOp EXCEPT !.op = "mark_full_refresh",
                                    !.ticker = ticker,
                                    !.rows_before = daily_bars[ticker],
                                    !.meta_before = ticker_metadata[ticker]]
    /\ UNCHANGED <<daily_bars, tz_offset, writer, putcallVars, adjusted_close,
                   policy, call, sp500_constituents, list_age, status_call, other_store>>
    /\ UNCHANGED jobVars

\* Ages (hours) of the timestamps considered: in the future, just written,
\* and on both sides of the two refresh intervals.
PolicyAges ==
    {-1, 0,
     ROLLING_REFRESH_INTERVAL_DAYS * HoursPerDay - 1,
     ROLLING_REFRESH_INTERVAL_DAYS * HoursPerDay,
     FULL_REFRESH_INTERVAL_DAYS * HoursPerDay - 1,
     FULL_REFRESH_INTERVAL_DAYS * HoursPerDay,
     FULL_REFRESH_INTERVAL_DAYS * HoursPerDay + 1}
PolicyTimes == {PolicyNow - a : a \in PolicyAges} \cup {NoTime}
\* The metadata dicts handed to decide_strategy.
PolicyMetadata ==
    {NoMetadata} \cup
    {[exists |-> TRUE, last_updated |-> u, last_full_refresh |-> r] :
        u \in PolicyTimes, r \in PolicyTimes}

\* The dates considered for a request and for cached_last_date: around the
\* start of the rolling window, around the always-fetch cutoff, and today.
PolicyDates ==
    {PolicyToday - ROLLING_WINDOW_DAYS - 1, PolicyToday - ROLLING_WINDOW_DAYS,
     PolicyToday - ROLLING_WINDOW_DAYS + 1,
     PolicyToday - ALWAYS_FETCH_DAYS - 1, PolicyToday - ALWAYS_FETCH_DAYS,
     PolicyToday - 1, PolicyToday, PolicyToday + 1}

Strategies == {"FULL_REFRESH", "ROLLING_WINDOW", "APPEND_ONLY"}

\* timedelta.days of the difference of two timestamps: whole days, rounded
\* down.
days_between(later, earlier) == (later - earlier) \div HoursPerDay

\* decide_strategy that tests the rolling interval before the full one.
decide_strategy_rolling_first(metadata, force_full, now) ==
    IF force_full THEN "FULL_REFRESH"
    ELSE IF ~metadata.exists THEN "FULL_REFRESH"
    ELSE IF metadata.last_updated # NoTime
            /\ days_between(now, metadata.last_updated)
                 >= ROLLING_REFRESH_INTERVAL_DAYS
    THEN "ROLLING_WINDOW"
    ELSE IF metadata.last_full_refresh = NoTime THEN "FULL_REFRESH"
    ELSE IF days_between(now, metadata.last_full_refresh)
              >= FULL_REFRESH_INTERVAL_DAYS
    THEN "FULL_REFRESH"
    ELSE "APPEND_ONLY"

\* RefreshPolicy.decide_strategy; now: datetime.now().
decide_strategy(metadata, force_full, now) ==
    IF force_full THEN "FULL_REFRESH"
    ELSE IF ~metadata.exists THEN "FULL_REFRESH"
    ELSE IF metadata.last_full_refresh = NoTime THEN "FULL_REFRESH"
    ELSE IF days_between(now, metadata.last_full_refresh)
              >= FULL_REFRESH_INTERVAL_DAYS
    THEN "FULL_REFRESH"
    ELSE IF metadata.last_updated # NoTime
            /\ days_between(now, metadata.last_updated)
                 >= ROLLING_REFRESH_INTERVAL_DAYS
    THEN "ROLLING_WINDOW"
    ELSE "APPEND_ONLY"

\* get_refresh_range whose APPEND_ONLY branch starts at cached_last + 1 and
\* ignores the always-fetch cutoff.
get_refresh_range_no_cutoff(strategy, start_date, end_date, cached_last_date, today) ==
    IF strategy = "FULL_REFRESH" THEN <<start_date, end_date>>
    ELSE IF strategy = "ROLLING_WINDOW"
    THEN <<SetMax({today - ROLLING_WINDOW_DAYS, start_date}), end_date>>
    ELSE IF cached_last_date = NoDate THEN <<start_date, end_date>>
    ELSE IF cached_last_date + 1 > end_date THEN NoRange
         ELSE <<cached_last_date + 1, end_date>>

\* RefreshPolicy.get_refresh_range; today: date.today().
get_refresh_range(strategy, start_date, end_date, cached_last_date, today) ==
    IF strategy = "FULL_REFRESH" THEN <<start_date, end_date>>
    ELSE IF strategy = "ROLLING_WINDOW"
    THEN <<SetMax({today - ROLLING_WINDOW_DAYS, start_date}), end_date>>
    ELSE IF cached_last_date = NoDate THEN <<start_date, end_date>>
    ELSE LET fetch_start == SetMin({today - ALWAYS_FETCH_DAYS, cached_last_date + 1})
         IN IF fetch_start > end_date THEN NoRange
            ELSE <<fetch_start, end_date>>

\* policy: a call of a method of RefreshPolicy, its arguments and, once the
\* method has returned (done), its result: strategy for decide_strategy,
\* range for get_refresh_range.
NoPolicyCall == [op |-> "none", done |-> FALSE,
                 metadata |-> NoMetadata, force_full |-> FALSE,
                 strategy |-> "FULL_REFRESH", start |-> PolicyToday,
                 end |-> PolicyToday, cached_last |-> NoDate, range |-> NoRange]

\* The calls considered.
PolicyCalls ==
    {[NoPolicyCall EXCEPT !.op = "decide_strategy", !.metadata = metadata,
                          !.force_full = force_full] :
        metadata \in PolicyMetadata, force_full \in BOOLEAN}
    \cup
    {[NoPolicyCall EXCEPT !.op = "get_refresh_range", !.strategy = strategy,
                          !.start = s, !.end = e, !.cached_last = cached] :
        strategy \in Strategies, s \in PolicyDates, e \in PolicyDates,
        cached \in PolicyDates \cup {NoDate}}

\* policy.decide_strategy(ticker, metadata, force_full)
DecideStrategy ==
    /\ policy.op = "decide_strategy" /\ ~policy.done
    /\ policy' = [policy EXCEPT
                     !.done = TRUE,
                     !.strategy = decide_strategy(policy.metadata,
                                                  policy.force_full, PolicyNow)]
    /\ UNCHANGED <<daily_bars, ticker_metadata, tz_offset, writer, putcallVars, adjusted_close, call,
                   last_op, sp500_constituents, list_age, status_call, other_store>>
    /\ UNCHANGED jobVars

\* policy.get_refresh_range(strategy, start_date, end_date, cached_last_date)
GetRefreshRange ==
    /\ policy.op = "get_refresh_range" /\ ~policy.done
    /\ policy' = [policy EXCEPT
                     !.done = TRUE,
                     !.range = get_refresh_range(policy.strategy, policy.start,
                                                 policy.end, policy.cached_last,
                                                 PolicyToday)]
    /\ UNCHANGED <<daily_bars, ticker_metadata, tz_offset, writer, putcallVars, adjusted_close, call,
                   last_op, sp500_constituents, list_age, status_call, other_store>>
    /\ UNCHANGED jobVars

\* ------------------------------------- _fetch_and_store, step by step
\* Threads that run _fetch_and_store for a symbol at the same time (a batch
\* worker and a request thread).  _store_bars and _update_metadata each
\* open a connection of their own; in _update_metadata the SELECT runs
\* outside a transaction and the upsert commits a transaction of its own, so
\* other connections can commit between any two of the three statements.
Writers == {"w1", "w2"}

IdleWriter == [pc |-> "idle", ticker |-> "MSFT", start |-> 1, end |-> 1,
               bars |-> <<>>,
               row |-> [first_date |-> NoDate, last_date |-> NoDate, total |-> 0]]

\* bars = fetch_func(ticker, start, end, api_key); if not bars: return 0
WriterFetch(w) ==
    /\ writer[w].pc \in {"idle", "done"}
    /\ \E t \in SyncTickers, s \in ReqDates, e \in ReqDates :
         /\ s <= e
         /\ LET bars == fetch_aggregate_bars(t, s, e)
            IN writer' = [writer EXCEPT ![w] =
                  [IdleWriter EXCEPT !.pc = IF bars = <<>> THEN "done" ELSE "store",
                                     !.ticker = t, !.start = s, !.end = e,
                                     !.bars = bars]]
    /\ UNCHANGED <<daily_bars, ticker_metadata, tz_offset, putcallVars,
                   adjusted_close, policy, call, last_op, sp500_constituents, list_age, status_call, other_store>>
    /\ UNCHANGED jobVars

\* count = self._store_bars(ticker, bars)
WriterStore(w) ==
    /\ writer[w].pc = "store"
    /\ daily_bars' = [daily_bars EXCEPT ![writer[w].ticker] =
                         store_bars(daily_bars[writer[w].ticker],
                                    writer[w].bars, tz_offset)]
    /\ writer' = [writer EXCEPT ![w].pc = "select"]
    /\ UNCHANGED <<ticker_metadata, tz_offset, putcallVars,
                   adjusted_close, policy, call, last_op, sp500_constituents, list_age, status_call, other_store>>
    /\ UNCHANGED jobVars

\* _update_metadata: the SELECT and cursor.fetchone().
WriterSelect(w) ==
    /\ writer[w].pc = "select"
    /\ writer' = [writer EXCEPT
                    ![w].pc = "upsert",
                    ![w].row = select_coverage(daily_bars[writer[w].ticker])]
    /\ UNCHANGED <<daily_bars, ticker_metadata, tz_offset, putcallVars,
                   adjusted_close, policy, call, last_op, sp500_constituents, list_age, status_call, other_store>>
    /\ UNCHANGED jobVars

\* _update_metadata: the upsert of the row read before, and the commit.
WriterUpsert(w) ==
    /\ writer[w].pc = "upsert"
    /\ ticker_metadata' = [ticker_metadata EXCEPT ![writer[w].ticker] =
                              upsert_metadata(ticker_metadata[writer[w].ticker],
                                              writer[w].row)]
    /\ writer' = [writer EXCEPT ![w].pc = "done"]
    /\ UNCHANGED <<daily_bars, tz_offset, putcallVars,
                   adjusted_close, policy, call, last_op, sp500_constituents, list_age, status_call, other_store>>
    /\ UNCHANGED jobVars

\* ---------------------------------------------- the put/call ratio cache
\* PutCallRatioManager (backend/cache/putcall_ratio.py).  putcall_ratio maps
\* a date to the source of its row ("none": no row); the table's primary
\* key is the date.
PcrDates == 1..3
\* date.today() of the calls of fetch_polygon_daily.
PcrToday == 3
NoPcrRows == [d \in PcrDates |-> "none"]

\* The sources load_cboe_historical downloads, in order.
CboeSources == <<"total", "total_archive">>
\* The dates of the records a source's CSV file yields.
CboeDates(source) == IF source = "total" THEN {2} ELSE {1, 2}

\* INSERT OR REPLACE INTO putcall_ratio of rows of one source.
insert_records(table, dates, source) ==
    [d \in PcrDates |-> IF d \in dates THEN source ELSE table[d]]

IdleLoader == [pc |-> "idle", force_reload |-> FALSE, i |-> 1,
               total_loaded |-> 0, failed |-> 0, skipped |-> FALSE,
               loaded_before |-> FALSE]

\* What the download of one source can come to: an exception on the way
\* (requests.get, raise_for_status, the parsing), a file without a date
\* column, or the file's records (of which none may be usable).
Downloads == {"error", "no_date_column", "records", "no_records"}

\* load_cboe_historical(force_reload) up to the loop: the call returns 0
\* when the marker is set and force_reload is not.
LoaderCall ==
    /\ loader.pc \in {"idle", "done"}
    /\ \E force_reload \in BOOLEAN :
         loader' = IF ~force_reload /\ cboe_loaded
                   THEN [IdleLoader EXCEPT !.pc = "done", !.skipped = TRUE,
                                           !.force_reload = force_reload,
                                           !.loaded_before = cboe_loaded]
                   ELSE [IdleLoader EXCEPT !.pc = "download",
                                           !.force_reload = force_reload,
                                           !.loaded_before = cboe_loaded]
    /\ UNCHANGED <<putcall_ratio, cboe_loaded, snapshot>>
    /\ UNCHANGED <<daily_bars, ticker_metadata, tz_offset, writer,
                   adjusted_close, policy, call, last_op, sp500_constituents, list_age, status_call, other_store>>
    /\ UNCHANGED jobVars

\* One pass of the loop over the sources: every exception is caught and
\* logged, and the loop goes on.
LoaderDownload ==
    /\ loader.pc = "download"
    /\ \E outcome \in Downloads :
         LET dates == IF outcome = "records"
                      THEN CboeDates(CboeSources[loader.i]) ELSE {}
             stored == outcome \in {"records", "no_records"}
         IN /\ putcall_ratio' = IF stored
                                THEN insert_records(putcall_ratio, dates, "cboe")
                                ELSE putcall_ratio
            /\ loader' = [loader EXCEPT
                    !.total_loaded = loader.total_loaded + Cardinality(dates),
                    !.failed = loader.failed + (IF stored THEN 0 ELSE 1),
                    !.i = loader.i + 1,
                    !.pc = IF loader.i = Len(CboeSources) THEN "mark"
                           ELSE "download"]
    /\ UNCHANGED <<cboe_loaded, snapshot>>
    /\ UNCHANGED <<daily_bars, ticker_metadata, tz_offset, writer,
                   adjusted_close, policy, call, last_op, sp500_constituents, list_age, status_call, other_store>>
    /\ UNCHANGED jobVars

\* # Mark as loaded: INSERT OR REPLACE INTO metadata ('cboe_loaded', 'true');
\* return total_loaded
LoaderMark ==
    /\ loader.pc = "mark"
    /\ cboe_loaded' = TRUE
    /\ loader' = [loader EXCEPT !.pc = "done"]
    /\ UNCHANGED <<putcall_ratio, snapshot>>
    /\ UNCHANGED <<daily_bars, ticker_metadata, tz_offset, writer,
                   adjusted_close, policy, call, last_op, sp500_constituents, list_age, status_call, other_store>>
    /\ UNCHANGED jobVars

\* max_pages = 50  # Safety limit
max_pages == 50
\* The requests of one fetch_polygon_daily call that the model follows.
MaxRequests == 52

\* page_count, next_url (has_next: it is not None) and total_call_volume
\* (call_volume: it is not 0) of the call; requests counts its requests.get
\* calls; result: "none" for None, "ratio" for the dict.
\* target_date: the argument, NoDate for None.
IdleSnapshot == [pc |-> "idle", target_date |-> NoDate, page_count |-> 0,
                 has_next |-> TRUE, call_volume |-> FALSE, requests |-> 0,
                 result |-> "none"]

\* fetch_date = target_date or date.today()
fetch_date(target_date) ==
    IF target_date # NoDate THEN target_date ELSE PcrToday

\* What requests.get can come to: an exception (timeout, connection), a
\* status code that is neither 200 nor 429, 429, or a page.
SnapshotResponses == {"exception", "error", "rate_limited", "page"}

\* fetch_polygon_daily(ticker, target_date) up to the loop; without an API
\* key it returns None at once.
SnapshotCall ==
    /\ snapshot.pc \in {"idle", "done"}
    /\ \E api_key \in BOOLEAN, target_date \in PcrDates \cup {NoDate} :
         snapshot' = [IdleSnapshot EXCEPT !.pc = IF api_key THEN "loop" ELSE "done",
                                          !.target_date = target_date]
    /\ UNCHANGED <<putcall_ratio, cboe_loaded, loader>>
    /\ UNCHANGED <<daily_bars, ticker_metadata, tz_offset, writer,
                   adjusted_close, policy, call, last_op, sp500_constituents, list_age, status_call, other_store>>
    /\ UNCHANGED jobVars

\* while next_url and page_count < max_pages
loop_continues(s) == s.has_next /\ s.page_count < max_pages

\* One pass of the loop body: the request and what follows from its answer.
\* A 429 sleeps and continues without counting a page.
SnapshotRequest ==
    /\ snapshot.pc = "loop"
    /\ loop_continues(snapshot)
    /\ snapshot.requests < MaxRequests
    /\ \E resp \in SnapshotResponses, next_url \in BOOLEAN, calls \in BOOLEAN :
         snapshot' =
            IF resp \in {"exception", "error"}
            THEN [snapshot EXCEPT !.requests = snapshot.requests + 1,
                                  !.pc = "done", !.result = "none"]
            ELSE IF resp = "rate_limited"
            THEN [snapshot EXCEPT !.requests = snapshot.requests + 1]
            ELSE [snapshot EXCEPT !.requests = snapshot.requests + 1,
                                  !.page_count = snapshot.page_count + 1,
                                  !.has_next = next_url,
                                  !.call_volume = snapshot.call_volume \/ calls]
    /\ UNCHANGED <<putcall_ratio, cboe_loaded, loader>>
    /\ UNCHANGED <<daily_bars, ticker_metadata, tz_offset, writer,
                   adjusted_close, policy, call, last_op, sp500_constituents, list_age, status_call, other_store>>
    /\ UNCHANGED jobVars

\* After the loop: None without call volume, else the ratio is cached under
\* fetch_date and returned.
SnapshotFinish ==
    /\ snapshot.pc = "loop"
    /\ ~loop_continues(snapshot)
    /\ snapshot' = [snapshot EXCEPT
                      !.pc = "done",
                      !.result = IF snapshot.call_volume THEN "ratio" ELSE "none"]
    /\ putcall_ratio' = IF snapshot.call_volume
                        THEN insert_records(putcall_ratio,
                                            {fetch_date(snapshot.target_date)},
                                            "polygon")
                        ELSE putcall_ratio
    /\ UNCHANGED <<cboe_loaded, loader>>
    /\ UNCHANGED <<daily_bars, ticker_metadata, tz_offset, writer,
                   adjusted_close, policy, call, last_op, sp500_constituents, list_age, status_call, other_store>>
    /\ UNCHANGED jobVars

\* ------------------------------------------------- the coverage report
\* missing[:20] if len(missing) > 20 else missing
MissingShown == 20

\* The quotients num / den, in lowest terms with num and den up to the
\* length of the static list, whose percentage lies halfway between two
\* tenths while the double num / den * 100 does not: Python rounds the
\* double, which goes to the odd tenth.
InexactTies ==
    { <<23, 80>>, <<49, 80>>, <<51, 80>>, <<87, 80>>, <<93, 80>>,
      <<161, 80>>, <<179, 80>>, <<181, 80>>, <<199, 80>>, <<201, 80>>,
      <<323, 80>>, <<337, 80>>, <<343, 80>>, <<357, 80>>, <<363, 80>>,
      <<377, 80>>, <<383, 80>>, <<397, 80>>, <<403, 80>>,
      <<109, 400>>, <<203, 400>>, <<207, 400>>, <<249, 400>>, <<251, 400>>,
      <<427, 400>>, <<431, 400>>, <<439, 400>>, <<461, 400>>, <<469, 400>>,
      <<473, 400>> }

\* round(num / den * 100, 1) in tenths, for num and den up to the length of
\* the static list: the nearest tenth; of a tie the even one when the
\* double is the tie itself, else the one the double lies nearer to.
round_tenths(num, den) ==
    LET q == (1000 * num) \div den
        r == (1000 * num) % den
        inexact == \E f \in InexactTies : num * f[2] = den * f[1]
    IN IF 2 * r > den \/ (2 * r = den /\ (q % 2 = 1) # inexact)
       THEN q + 1 ELSE q

\* SP500Cacher.get_caching_status: cached are the rows of ticker_metadata
\* with is_sp500 = 1 AND total_bars > 0 (meta: the rows of the symbols of
\* Tickers, others: those of the other symbols), missing the symbols of
\* the universe not among them; coverage_pct in tenths of a percent.
get_caching_status(meta, others, tickers) ==
    LET cached == {t \in Tickers : /\ meta[t].exists /\ meta[t].is_sp500
                                   /\ meta[t].total_bars > 0}
                  \cup {s \in DOMAIN others : /\ others[s].meta.is_sp500
                                              /\ others[s].meta.total_bars > 0}
        missing == SelectSeq(tickers, LAMBDA t : t \notin cached)
    IN [total_sp500 |-> Len(tickers),
        cached_count |-> Cardinality(cached),
        missing_count |-> Len(missing),
        coverage_pct |-> round_tenths(Cardinality(cached), Len(tickers)),
        missing_tickers |-> IF Len(missing) > MissingShown
                            THEN SubSeq(missing, 1, MissingShown) ELSE missing]

\* The frame of a call of get_caching_status (the status route's) or of
\* sync_sp500_flags (op), both of which begin with get_sp500_constituents().
IdleStatus == [pc |-> "idle", op |-> "get_caching_status",
               fetched |-> <<>>, tickers |-> <<>>]

\* The status route calls cacher.get_caching_status(): its
\* get_sp500_constituents() up to the age test.
StatusCall ==
    /\ status_call.pc = "idle"
    /\ status_call' = [IdleStatus EXCEPT !.pc = after_age_test(list_age)]
    /\ UNCHANGED <<daily_bars, ticker_metadata, tz_offset, writer, putcallVars,
                   adjusted_close, policy, call, last_op, sp500_constituents,
                   list_age, other_store>>
    /\ UNCHANGED jobVars

\* Wikipedia has answered the request of the route's call with one of W.
StatusListAnswer(W) ==
    /\ status_call.pc = "list_wait"
    /\ \E answer \in W :
         status_call' = [status_call EXCEPT !.pc = after_answer(answer),
                                            !.fetched = answer]
    /\ UNCHANGED <<daily_bars, ticker_metadata, tz_offset, writer, putcallVars,
                   adjusted_close, policy, call, last_op, sp500_constituents,
                   list_age, other_store>>
    /\ UNCHANGED jobVars

\* The transaction of refresh_sp500_constituents in the route's call; the
\* is_sp500 flags of ticker_metadata are left as they are.
StatusListReplace ==
    /\ status_call.pc = "list_replace"
    /\ sp500_constituents' = order_by_ticker(status_call.fetched)
    /\ list_age' = 0
    /\ status_call' = [status_call EXCEPT !.pc = "list_read", !.fetched = <<>>]
    /\ UNCHANGED <<daily_bars, ticker_metadata, tz_offset, writer, putcallVars,
                   adjusted_close, policy, call, last_op, other_store>>
    /\ UNCHANGED jobVars

\* The read of the table, or the static list; then the call's own query.
StatusListRead ==
    /\ status_call.pc = "list_read"
    /\ status_call' = [status_call EXCEPT
                          !.pc = IF status_call.op = "sync_sp500_flags"
                                 THEN "flags" ELSE "query",
                          !.tickers = cached_or_fallback(sp500_constituents)]
    /\ UNCHANGED <<daily_bars, ticker_metadata, tz_offset, writer, putcallVars,
                   adjusted_close, policy, call, last_op, sp500_constituents,
                   list_age, other_store>>
    /\ UNCHANGED jobVars

\* A caller of the module calls sync_sp500_flags(): init_db(), then
\* get_sp500_constituents() up to the age test.
SyncFlagsCall ==
    /\ status_call.pc = "idle"
    /\ status_call' = [IdleStatus EXCEPT !.op = "sync_sp500_flags",
                                         !.pc = after_age_test(list_age)]
    /\ UNCHANGED <<daily_bars, ticker_metadata, tz_offset, writer, putcallVars,
                   adjusted_close, policy, call, last_op, sp500_constituents,
                   list_age, other_store>>
    /\ UNCHANGED jobVars

\* The transaction of sync_sp500_flags on current_tickers, the set of the
\* list read, ending with one of D; it returns the counts marked (one per
\* symbol of the set) and unmarked (cursor.rowcount of the UPDATE: the rows
\* flagged whose symbol is not of the set), or the exception leaves the
\* function.
SyncFlags(D) ==
    LET current == {status_call.tickers[i] : i \in DOMAIN status_call.tickers}
        unmarked_count ==
            Cardinality({t \in Tickers \ current :
                            ticker_metadata[t].exists /\ ticker_metadata[t].is_sp500})
            + Cardinality({s \in DOMAIN other_store \ current :
                              other_store[s].meta.is_sp500})
    IN /\ status_call.pc = "flags"
       /\ \E d \in D :
            IF d = "committed"
            THEN /\ ticker_metadata' = sync_sp500_flags(ticker_metadata, current)
                 /\ other_store' = sync_sp500_flags_others(other_store, current)
                 /\ last_op' = [NoOp EXCEPT
                        !.op = "sync_sp500_flags",
                        !.result = [marked |-> Cardinality(current),
                                    unmarked |-> unmarked_count]]
            ELSE /\ UNCHANGED <<ticker_metadata, other_store>>
                 /\ last_op' = [NoOp EXCEPT !.op = "sync_sp500_flags",
                                            !.result = DatabaseLocked]
       /\ status_call' = IdleStatus
       /\ UNCHANGED <<daily_bars, tz_offset, writer, putcallVars, adjusted_close,
                      policy, call, sp500_constituents, list_age>>
       /\ UNCHANGED jobVars

\* The SELECT on ticker_metadata and the report made of it.
CachingStatus ==
    /\ status_call.pc = "query"
    /\ last_op' = [NoOp EXCEPT !.op = "get_caching_status",
                               !.result = get_caching_status(ticker_metadata,
                                                             other_store,
                                                             status_call.tickers)]
    /\ status_call' = IdleStatus
    /\ UNCHANGED <<daily_bars, ticker_metadata, tz_offset, writer, putcallVars,
                   adjusted_close, policy, call, sp500_constituents, list_age,
                   other_store>>
    /\ UNCHANGED jobVars

\* ------------------------------------------------------------------ Init
\* The state after init_db() on a new database and the import of the
\* modules: every table is empty (sp500_list_metadata has no row, so the
\* list has no age), no job thread exists and no call is under way.
Init ==
    /\ daily_bars = [t \in Tickers |-> NoBars]
    /\ ticker_metadata = [t \in Tickers |-> NoRow]
    /\ tz_offset \in TzOffsets
    /\ adjusted_close = OriginalClose
    /\ policy = NoPolicyCall
    /\ call = [p \in Procs |-> IdleCall]
    /\ last_op = NoOp
    /\ sp500_constituents = <<>>
    /\ list_age = NoAge
    /\ status_call = IdleStatus
    /\ other_store = [t \in {} |-> NoRow]
    /\ cache_jobs = <<>>
    /\ job_thread = NoJob
    /\ current_job_id = NoJob
    /\ thread = [j \in Jobs |-> "none"]
    /\ req = [c \in Callers |-> IdleReq]
    /\ worker = [j \in Jobs |-> IdleWorker]
    /\ writer = [w \in Writers |-> IdleWriter]
    /\ putcall_ratio = NoPcrRows
    /\ cboe_loaded = FALSE
    /\ loader = IdleLoader
    /\ snapshot = IdleSnapshot

\* ----------------------------------------- specification of the cache API
NextCache ==
    \/ GetBars
    \/ SyncFetchRange
    \/ SyncFetchFullRange
    \/ SyncStoreFetched
    \/ SyncSelectCoverage
    \/ SyncUpsertMetadata
    \/ SyncDetermineRanges
    \/ SyncReadBack
    \/ InvalidateTicker
    \/ DeleteTicker

SpecCache == Init /\ [][NextCache]_vars

\* ------------------------------- specification of the store's operations
NextStore ==
    \/ StoreBars
    \/ InvalidateRange
    \/ SyncStoreFetched
    \/ SyncSelectCoverage
    \/ SyncUpsertMetadata
    \/ InvalidateTicker
    \/ DeleteTicker
    \/ ReadRange
    \/ MarkFullRefresh

SpecStore == Init /\ [][NextStore]_vars


\* ------------------------------- specification of the refresh policy
\* A call of decide_strategy or of get_refresh_range with any of the
\* arguments considered.
InitPolicy ==
    /\ daily_bars = [t \in Tickers |-> NoBars]
    /\ ticker_metadata = [t \in Tickers |-> NoRow]
    /\ tz_offset \in TzOffsets
    /\ adjusted_close = OriginalClose
    /\ policy \in PolicyCalls
    /\ call = [p \in Procs |-> IdleCall]
    /\ last_op = NoOp
    /\ sp500_constituents = <<>>
    /\ list_age = NoAge
    /\ status_call = IdleStatus
    /\ other_store = [t \in {} |-> NoRow]
    /\ cache_jobs = <<>>
    /\ job_thread = NoJob
    /\ current_job_id = NoJob
    /\ thread = [j \in Jobs |-> "none"]
    /\ req = [c \in Callers |-> IdleReq]
    /\ worker = [j \in Jobs |-> IdleWorker]
    /\ writer = [w \in Writers |-> IdleWriter]
    /\ putcall_ratio = NoPcrRows
    /\ cboe_loaded = FALSE
    /\ loader = IdleLoader
    /\ snapshot = IdleSnapshot

NextPolicy ==
    \/ DecideStrategy
    \/ GetRefreshRange

SpecPolicy == InitPolicy /\ [][NextPolicy]_vars

\* ----------------------------------------- specification of the batch job
\* Request threads race to start batch jobs on a new database; Wikipedia
\* lists one symbol, and the upstream answers a fetch with one of the
\* JobResponses.  The list is refreshed by the first request, before any
\* job is created, so that the age test of a worker finds it fresh.
NextJob ==
    \/ \E c \in Callers : StartCheck(c)
    \/ \E c \in Callers : ReqListCheck(c)
    \/ \E c \in Callers : ReqListAnswer(c, {<<"MSFT">>})
    \/ \E c \in Callers : ReqListReplace(c)
    \/ \E c \in Callers : ReqListRead(c)
    \/ \E c \in Callers : CreateJob(c)
    \/ \E c \in Callers : AssignThread(c)
    \/ \E c \in Callers : StartThread(c)
    \/ \E c \in Callers : Respond(c)
    \/ \E j \in Jobs : WorkerBegin(j)
    \/ \E j \in Jobs : WorkerSetup(j)
    \/ \E j \in Jobs : WorkerListRead(j)
    \/ \E j \in Jobs : WorkerMark(j, {"committed"})
    \/ \E j \in Jobs : WorkerGetBars(j, {"committed"})
    \/ \E j \in Jobs : WorkerFetchRange(j, JobResponses)
    \/ \E j \in Jobs : WorkerFetchFullRange(j, JobResponses)
    \/ \E j \in Jobs : WorkerStoreFetched(j, {"committed"})
    \/ \E j \in Jobs : WorkerSelectCoverage(j)
    \/ \E j \in Jobs : WorkerUpsertMetadata(j, {"committed"})
    \/ \E j \in Jobs : WorkerReadBack(j)
    \/ \E j \in Jobs : WorkerAfterCall(j, {"committed"})
    \/ \E j \in Jobs : WorkerFinish(j, {"committed"})
    \/ \E j \in Jobs : WorkerExcept(j, {"committed"})
    \/ \E j \in Jobs : WorkerFinally(j)
    \/ \E j \in Jobs : WorkerExit(j)

SpecJob == Init /\ [][NextJob]_vars


\* --------------------------- specification of batch runs started in turn
\* One request thread starts the jobs, so that at most one worker runs at a
\* time; Wikipedia lists two symbols and the upstream may answer a fetch
\* with any of the Responses.
Operator == "c1"

NextRun ==
    \/ StartCheck(Operator)
    \/ ReqListCheck(Operator)
    \/ ReqListAnswer(Operator, {<<"MSFT", "AAPL">>})
    \/ ReqListReplace(Operator)
    \/ ReqListRead(Operator)
    \/ CreateJob(Operator)
    \/ AssignThread(Operator)
    \/ StartThread(Operator)
    \/ Respond(Operator)
    \/ \E j \in Jobs : WorkerBegin(j)
    \/ \E j \in Jobs : WorkerSetup(j)
    \/ \E j \in Jobs : WorkerListRead(j)
    \/ \E j \in Jobs : WorkerMark(j, {"committed"})
    \/ \E j \in Jobs : WorkerGetBars(j, {"committed"})
    \/ \E j \in Jobs : WorkerFetchRange(j, Responses)
    \/ \E j \in Jobs : WorkerFetchFullRange(j, Responses)
    \/ \E j \in Jobs : WorkerStoreFetched(j, {"committed"})
    \/ \E j \in Jobs : WorkerSelectCoverage(j)
    \/ \E j \in Jobs : WorkerUpsertMetadata(j, {"committed"})
    \/ \E j \in Jobs : WorkerReadBack(j)
    \/ \E j \in Jobs : WorkerAfterCall(j, {"committed"})
    \/ \E j \in Jobs : WorkerFinish(j, {"committed"})
    \/ \E j \in Jobs : WorkerExcept(j, {"committed"})
    \/ \E j \in Jobs : WorkerFinally(j)
    \/ \E j \in Jobs : WorkerExit(j)

SpecRun == Init /\ [][NextRun]_vars

\* ------------- specification of batch runs on a database that is in use
\* The batch runs of SpecRun while other connections write to the database
\* file: a write of the worker thread (mark_sp500, the writes of get_bars,
\* the updates of its cache_jobs row) may end with any of the WriteOutcomes.
NextLocked ==
    \/ StartCheck(Operator)
    \/ ReqListCheck(Operator)
    \/ ReqListAnswer(Operator, {<<"MSFT", "AAPL">>})
    \/ ReqListReplace(Operator)
    \/ ReqListRead(Operator)
    \/ CreateJob(Operator)
    \/ AssignThread(Operator)
    \/ StartThread(Operator)
    \/ Respond(Operator)
    \/ \E j \in Jobs : WorkerBegin(j)
    \/ \E j \in Jobs : WorkerSetup(j)
    \/ \E j \in Jobs : WorkerListRead(j)
    \/ \E j \in Jobs : WorkerMark(j, WriteOutcomes)
    \/ \E j \in Jobs : WorkerGetBars(j, WriteOutcomes)
    \/ \E j \in Jobs : WorkerFetchRange(j, Responses)
    \/ \E j \in Jobs : WorkerFetchFullRange(j, Responses)
    \/ \E j \in Jobs : WorkerStoreFetched(j, WriteOutcomes)
    \/ \E j \in Jobs : WorkerSelectCoverage(j)
    \/ \E j \in Jobs : WorkerUpsertMetadata(j, WriteOutcomes)
    \/ \E j \in Jobs : WorkerReadBack(j)
    \/ \E j \in Jobs : WorkerAfterCall(j, WriteOutcomes)
    \/ \E j \in Jobs : WorkerFinish(j, WriteOutcomes)
    \/ \E j \in Jobs : WorkerExcept(j, WriteOutcomes)
    \/ \E j \in Jobs : WorkerFinally(j)
    \/ \E j \in Jobs : WorkerExit(j)

SpecLocked == Init /\ [][NextLocked]_vars


\* ------------- specification of the server with an upstream that answers
\* Cached reads of the request thread and batch runs started in turn, side
\* by side; Wikipedia lists one symbol; every fetch is answered with bars,
\* and the provider may revise its history once.
NextServer ==
    \/ Revise
    \/ CachedGetBars
    \/ SyncFetchRangeOK
    \/ SyncStoreFetched
    \/ SyncSelectCoverage
    \/ SyncUpsertMetadata
    \/ SyncReadBack
    \/ StartCheck(Operator)
    \/ ReqListCheck(Operator)
    \/ ReqListAnswer(Operator, {<<"MSFT">>})
    \/ ReqListReplace(Operator)
    \/ ReqListRead(Operator)
    \/ CreateJob(Operator)
    \/ AssignThread(Operator)
    \/ StartThread(Operator)
    \/ Respond(Operator)
    \/ \E j \in Jobs : WorkerBegin(j)
    \/ \E j \in Jobs : WorkerSetup(j)
    \/ \E j \in Jobs : WorkerListRead(j)
    \/ \E j \in Jobs : WorkerMark(j, {"committed"})
    \/ \E j \in Jobs : WorkerGetBars(j, {"committed"})
    \/ \E j \in Jobs : WorkerFetchRange(j, {NoErr})
    \/ \E j \in Jobs : WorkerStoreFetched(j, {"committed"})
    \/ \E j \in Jobs : WorkerSelectCoverage(j)
    \/ \E j \in Jobs : WorkerUpsertMetadata(j, {"committed"})
    \/ \E j \in Jobs : WorkerReadBack(j)
    \/ \E j \in Jobs : WorkerAfterCall(j, {"committed"})
    \/ \E j \in Jobs : WorkerFinish(j, {"committed"})
    \/ \E j \in Jobs : WorkerExcept(j, {"committed"})
    \/ \E j \in Jobs : WorkerFinally(j)
    \/ \E j \in Jobs : WorkerExit(j)

SpecServer == Init /\ [][NextServer]_vars

\* A step of a get_bars call of the request thread that is under way.
SyncStep ==
    \/ SyncFetchRangeOK
    \/ SyncStoreFetched
    \/ SyncSelectCoverage
    \/ SyncUpsertMetadata
    \/ SyncReadBack
\* A step of a call of start_sp500_cache_job by request thread c.
CallerStep(c) ==
    \/ StartCheck(c)
    \/ ReqListCheck(c)
    \/ ReqListAnswer(c, {<<"MSFT">>})
    \/ ReqListReplace(c)
    \/ ReqListRead(c)
    \/ CreateJob(c)
    \/ AssignThread(c)
    \/ StartThread(c)
    \/ Respond(c)
\* A step of the worker thread of job j, with every fetch answered with bars.
JobStep(j) ==
    \/ WorkerBegin(j)
    \/ WorkerSetup(j)
    \/ WorkerListRead(j)
    \/ WorkerMark(j, {"committed"})
    \/ WorkerGetBars(j, {"committed"})
    \/ WorkerFetchRange(j, {NoErr})
    \/ WorkerStoreFetched(j, {"committed"})
    \/ WorkerSelectCoverage(j)
    \/ WorkerUpsertMetadata(j, {"committed"})
    \/ WorkerReadBack(j)
    \/ WorkerAfterCall(j, {"committed"})
    \/ WorkerFinish(j, {"committed"})
    \/ WorkerExcept(j, {"committed"})
    \/ WorkerFinally(j)
    \/ WorkerExit(j)
\* A step of the operator's request to start a batch run.
OperatorStep == CallerStep(Operator)
\* A step of a worker thread.
WorkerStep == \E j \in Jobs : JobStep(j)

\* ---------------- specification of repeated reads while history is revised
\* The cached read of a symbol over the whole range of dates.
FullRangeRead ==
    \E t \in SyncTickers : CallGetBars(t, HistoricalStart, MaxDate, FALSE)

\* The request thread reads the whole range again and again while batch
\* runs are started in turn; every fetch is answered with bars, and the
\* provider may revise its history once.
NextRefresh ==
    \/ Revise
    \/ FullRangeRead
    \/ SyncFetchRangeOK
    \/ SyncStoreFetched
    \/ SyncSelectCoverage
    \/ SyncUpsertMetadata
    \/ SyncReadBack
    \/ StartCheck(Operator)
    \/ ReqListCheck(Operator)
    \/ ReqListAnswer(Operator, {<<"MSFT">>})
    \/ ReqListReplace(Operator)
    \/ ReqListRead(Operator)
    \/ CreateJob(Operator)
    \/ AssignThread(Operator)
    \/ StartThread(Operator)
    \/ Respond(Operator)
    \/ \E j \in Jobs : WorkerBegin(j)
    \/ \E j \in Jobs : WorkerSetup(j)
    \/ \E j \in Jobs : WorkerListRead(j)
    \/ \E j \in Jobs : WorkerMark(j, {"committed"})
    \/ \E j \in Jobs : WorkerGetBars(j, {"committed"})
    \/ \E j \in Jobs : WorkerFetchRange(j, {NoErr})
    \/ \E j \in Jobs : WorkerStoreFetched(j, {"committed"})
    \/ \E j \in Jobs : WorkerSelectCoverage(j)
    \/ \E j \in Jobs : WorkerUpsertMetadata(j, {"committed"})
    \/ \E j \in Jobs : WorkerReadBack(j)
    \/ \E j \in Jobs : WorkerAfterCall(j, {"committed"})
    \/ \E j \in Jobs : WorkerFinish(j, {"committed"})
    \/ \E j \in Jobs : WorkerExcept(j, {"committed"})
    \/ \E j \in Jobs : WorkerFinally(j)
    \/ \E j \in Jobs : WorkerExit(j)

\* The server keeps running: a thread that can take a step does so, batch
\* runs are started as long as the job table admits, and the cached read
\* is called again and again.
SpecRefresh ==
    /\ Init /\ [][NextRefresh]_vars
    /\ WF_vars(SyncStep)
    /\ WF_vars(OperatorStep)
    /\ WF_vars(WorkerStep)
    /\ SF_vars(FullRangeRead)

\* ------------------ specification of the batch job with threads that run
\* The request threads race to start batch jobs as in SpecJob; every fetch
\* is answered with bars; a request thread or a worker thread that can take
\* a step eventually takes it.
NextRace ==
    \/ \E c \in Callers : StartCheck(c)
    \/ \E c \in Callers : ReqListCheck(c)
    \/ \E c \in Callers : ReqListAnswer(c, {<<"MSFT">>})
    \/ \E c \in Callers : ReqListReplace(c)
    \/ \E c \in Callers : ReqListRead(c)
    \/ \E c \in Callers : CreateJob(c)
    \/ \E c \in Callers : AssignThread(c)
    \/ \E c \in Callers : StartThread(c)
    \/ \E c \in Callers : Respond(c)
    \/ \E j \in Jobs : WorkerBegin(j)
    \/ \E j \in Jobs : WorkerSetup(j)
    \/ \E j \in Jobs : WorkerListRead(j)
    \/ \E j \in Jobs : WorkerMark(j, {"committed"})
    \/ \E j \in Jobs : WorkerGetBars(j, {"committed"})
    \/ \E j \in Jobs : WorkerFetchRange(j, {NoErr})
    \/ \E j \in Jobs : WorkerStoreFetched(j, {"committed"})
    \/ \E j \in Jobs : WorkerSelectCoverage(j)
    \/ \E j \in Jobs : WorkerUpsertMetadata(j, {"committed"})
    \/ \E j \in Jobs : WorkerReadBack(j)
    \/ \E j \in Jobs : WorkerAfterCall(j, {"committed"})
    \/ \E j \in Jobs : WorkerFinish(j, {"committed"})
    \/ \E j \in Jobs : WorkerExcept(j, {"committed"})
    \/ \E j \in Jobs : WorkerFinally(j)
    \/ \E j \in Jobs : WorkerExit(j)

SpecRace ==
    /\ Init /\ [][NextRace]_vars
    /\ \A c \in Callers : WF_vars(CallerStep(c))
    /\ \A j \in Jobs : WF_vars(JobStep(j))

\* ------------------- specification of get_bars over a store with gaps
\* The store after one _fetch_and_store of a bar list of any days for a
\* symbol (the provider has no bars for days without trading).
InitGap ==
    /\ tz_offset \in TzOffsets
    /\ \E t \in SyncTickers, bars \in BarLists :
          LET r == fetch_and_store(NoBars, NoRow, bars, tz_offset)
          IN /\ daily_bars = [[u \in Tickers |-> NoBars] EXCEPT ![t] = r.rows]
             /\ ticker_metadata = [[u \in Tickers |-> NoRow] EXCEPT ![t] = r.meta]
    /\ adjusted_close = OriginalClose
    /\ policy = NoPolicyCall
    /\ call = [p \in Procs |-> IdleCall]
    /\ last_op = NoOp
    /\ sp500_constituents = <<>>
    /\ list_age = NoAge
    /\ status_call = IdleStatus
    /\ other_store = [t \in {} |-> NoRow]
    /\ cache_jobs = <<>>
    /\ job_thread = NoJob
    /\ current_job_id = NoJob
    /\ thread = [j \in Jobs |-> "none"]
    /\ req = [c \in Callers |-> IdleReq]
    /\ worker = [j \in Jobs |-> IdleWorker]
    /\ writer = [w \in Writers |-> IdleWriter]
    /\ putcall_ratio = NoPcrRows
    /\ cboe_loaded = FALSE
    /\ loader = IdleLoader
    /\ snapshot = IdleSnapshot

\* The request thread calls get_bars, with and without force_refresh, on
\* such a store; every fetch is answered with bars.
NextGap ==
    \/ GetBars
    \/ SyncFetchRangeOK
    \/ SyncStoreFetched
    \/ SyncSelectCoverage
    \/ SyncUpsertMetadata
    \/ SyncDetermineRanges
    \/ SyncReadBack

SpecGap == InitGap /\ [][NextGap]_vars

\* ---------------------- specification of concurrent _fetch_and_store calls
NextWriters ==
    \/ \E w \in Writers : WriterFetch(w)
    \/ \E w \in Writers : WriterStore(w)
    \/ \E w \in Writers : WriterSelect(w)
    \/ \E w \in Writers : WriterUpsert(w)

SpecWriters == Init /\ [][NextWriters]_vars

\* ----------------------- specification of the runs of refresh_cache.py
\* The script is run by hand, one run after the other; a week may pass
\* between two runs and the upstream may answer a fetch with any of the
\* Responses.  Wikipedia answers the request of main() with a list and the
\* request of cache_all with any of the WikipediaAnswers; the runs over
\* the static list are those of SpecFallback.
NextScript ==
    \/ WeekPasses
    \/ \E j \in Jobs : ScriptMain(j)
    \/ \E j \in Jobs : ScriptListAnswer(j, WikipediaLists)
    \/ \E j \in Jobs : ScriptListReplace(j)
    \/ \E j \in Jobs : ScriptListRead(j)
    \/ \E j \in Jobs : WorkerSetup(j)
    \/ \E j \in Jobs : WorkerListAnswer(j, WikipediaAnswers)
    \/ \E j \in Jobs : WorkerListReplace(j)
    \/ \E j \in Jobs : WorkerListRead(j)
    \/ \E j \in Jobs : WorkerMark(j, {"committed"})
    \/ \E j \in Jobs : WorkerGetBars(j, {"committed"})
    \/ \E j \in Jobs : WorkerSelectCoverage(j)
    \/ \E j \in Jobs : WorkerUpsertMetadata(j, {"committed"})
    \/ \E j \in Jobs : WorkerDetermineRanges(j)
    \/ \E j \in Jobs : WorkerFetchRange(j, Responses)
    \/ \E j \in Jobs : WorkerFetchFullRange(j, Responses)
    \/ \E j \in Jobs : WorkerStoreFetched(j, {"committed"})
    \/ \E j \in Jobs : WorkerReadBack(j)
    \/ \E j \in Jobs : WorkerAfterCall(j, {"committed"})
    \/ \E j \in Jobs : ScriptReport(j)

SpecScript == Init /\ [][NextScript]_vars

\* ----------------------- specification of the CBOE loader
\* Calls of load_cboe_historical, one after the other.
NextLoader ==
    \/ LoaderCall
    \/ LoaderDownload
    \/ LoaderMark

SpecLoader == Init /\ [][NextLoader]_vars

\* ----------------------- specification of the option-chain snapshot
\* Calls of fetch_polygon_daily, one after the other.
NextSnapshot ==
    \/ SnapshotCall
    \/ SnapshotRequest
    \/ SnapshotFinish

SpecSnapshot == Init /\ [][NextSnapshot]_vars

\* ------------------- specification of the coverage report between runs
\* Batch runs started in turn with every fetch answered with bars, refreshes
\* of the constituent list between them, and calls of the status report.
\* Wikipedia answers the operator's request with a list, the requests of
\* the worker and of the status route with any of the WikipediaAnswers; the
\* batch runs over the static list are those of SpecFallback.
NextCoverage ==
    \/ WeekPasses
    \/ StatusCall
    \/ StatusListAnswer(WikipediaAnswers)
    \/ StatusListReplace
    \/ StatusListRead
    \/ CachingStatus
    \/ StartCheck(Operator)
    \/ ReqListCheck(Operator)
    \/ ReqListAnswer(Operator, WikipediaLists)
    \/ ReqListReplace(Operator)
    \/ ReqListRead(Operator)
    \/ CreateJob(Operator)
    \/ AssignThread(Operator)
    \/ StartThread(Operator)
    \/ Respond(Operator)
    \/ \E j \in Jobs : WorkerBegin(j)
    \/ \E j \in Jobs : WorkerSetup(j)
    \/ \E j \in Jobs : WorkerListAnswer(j, WikipediaAnswers)
    \/ \E j \in Jobs : WorkerListReplace(j)
    \/ \E j \in Jobs : WorkerListRead(j)
    \/ \E j \in Jobs : WorkerMark(j, {"committed"})
    \/ \E j \in Jobs : WorkerGetBars(j, {"committed"})
    \/ \E j \in Jobs : WorkerFetchRange(j, {NoErr})
    \/ \E j \in Jobs : WorkerStoreFetched(j, {"committed"})
    \/ \E j \in Jobs : WorkerSelectCoverage(j)
    \/ \E j \in Jobs : WorkerUpsertMetadata(j, {"committed"})
    \/ \E j \in Jobs : WorkerReadBack(j)
    \/ \E j \in Jobs : WorkerAfterCall(j, {"committed"})
    \/ \E j \in Jobs : WorkerFinish(j, {"committed"})
    \/ \E j \in Jobs : WorkerExcept(j, {"committed"})
    \/ \E j \in Jobs : WorkerFinally(j)
    \/ \E j \in Jobs : WorkerExit(j)

SpecCoverage == Init /\ [][NextCoverage]_vars

\* ------------ specification of a batch run over the static fallback list
\* A new database while Wikipedia is down or lists one symbol: the
\* operator's request and the worker may both find the table empty and
\* work with the static list; every fetch is answered with bars.  The
\* operator starts the jobs in turn; between the runs, while no request is
\* under way, the status route is polled, sync_sp500_flags is called and
\* the provider may revise.
NoWorkerAlive == \A j \in Jobs : thread[j] # "alive"
BetweenRuns ==
    /\ cache_jobs # <<>>
    /\ NoWorkerAlive
    /\ \A c \in Callers : req[c].pc = "idle"

NextFallback ==
    \/ BetweenRuns /\ StatusCall
    \/ BetweenRuns /\ StatusListAnswer({<<>>, <<"MSFT">>})
    \/ BetweenRuns /\ StatusListReplace
    \/ BetweenRuns /\ StatusListRead
    \/ BetweenRuns /\ CachingStatus
    \/ BetweenRuns /\ SyncFlagsCall
    \/ BetweenRuns /\ SyncFlags({"committed"})
    \/ BetweenRuns /\ Revise
    \/ NoWorkerAlive /\ status_call.pc = "idle" /\ StartCheck(Operator)
    \/ ReqListCheck(Operator)
    \/ ReqListAnswer(Operator, {<<>>, <<"MSFT">>})
    \/ ReqListReplace(Operator)
    \/ ReqListRead(Operator)
    \/ CreateJob(Operator)
    \/ AssignThread(Operator)
    \/ StartThread(Operator)
    \/ Respond(Operator)
    \/ \E j \in Jobs : WorkerBegin(j)
    \/ \E j \in Jobs : WorkerSetup(j)
    \/ \E j \in Jobs : WorkerListAnswer(j, {<<>>, <<"MSFT">>})
    \/ \E j \in Jobs : WorkerListReplace(j)
    \/ \E j \in Jobs : WorkerListRead(j)
    \/ \E j \in Jobs : WorkerMark(j, {"committed"})
    \/ \E j \in Jobs : WorkerGetBars(j, {"committed"})
    \/ \E j \in Jobs : WorkerOtherSymbol(j, {"committed"})
    \/ \E j \in Jobs : WorkerOtherStatement(j, {"committed"})
    \/ \E j \in Jobs : WorkerFetchRange(j, {NoErr})
    \/ \E j \in Jobs : WorkerStoreFetched(j, {"committed"})
    \/ \E j \in Jobs : WorkerSelectCoverage(j)
    \/ \E j \in Jobs : WorkerUpsertMetadata(j, {"committed"})
    \/ \E j \in Jobs : WorkerReadBack(j)
    \/ \E j \in Jobs : WorkerAfterCall(j, {"committed"})
    \/ \E j \in Jobs : WorkerFinish(j, {"committed"})
    \/ \E j \in Jobs : WorkerExcept(j, {"committed"})
    \/ \E j \in Jobs : WorkerFinally(j)
    \/ \E j \in Jobs : WorkerExit(j)

SpecFallback == Init /\ [][NextFallback]_vars

\* ------------- specification of the cache API beside another symbol's rows
\* The store holds what one _fetch_and_store of a range ending at the last
\* date left for a symbol the API is not called with.
OtherTicker == "AAPL"

InitFrame ==
    /\ tz_offset \in TzOffsets
    /\ adjusted_close = OriginalClose
    /\ \E s \in ReqDates :
          LET r == fetch_and_store(NoBars, NoRow,
                                   fetch_aggregate_bars(OtherTicker, s, MaxDate),
                                   tz_offset)
          IN /\ daily_bars = [[u \in Tickers |-> NoBars] EXCEPT ![OtherTicker] = r.rows]
             /\ ticker_metadata = [[u \in Tickers |-> NoRow] EXCEPT ![OtherTicker] = r.meta]
    /\ policy = NoPolicyCall
    /\ call = [p \in Procs |-> IdleCall]
    /\ last_op = NoOp
    /\ sp500_constituents = <<>>
    /\ list_age = NoAge
    /\ status_call = IdleStatus
    /\ other_store = [t \in {} |-> NoRow]
    /\ cache_jobs = <<>>
    /\ job_thread = NoJob
    /\ current_job_id = NoJob
    /\ thread = [j \in Jobs |-> "none"]
    /\ req = [c \in Callers |-> IdleReq]
    /\ worker = [j \in Jobs |-> IdleWorker]
    /\ writer = [w \in Writers |-> IdleWriter]
    /\ putcall_ratio = NoPcrRows
    /\ cboe_loaded = FALSE
    /\ loader = IdleLoader
    /\ snapshot = IdleSnapshot

SpecFrame == InitFrame /\ [][NextCache]_vars

\* ================================================================ claims
Terminal == {"completed", "completed_with_errors", "failed"}

\* C1 (stated as in the specification; refuted): at most one cache_jobs row
\* has status 'running' at any time, whatever the interleaving of the
\* callers of start_sp500_cache_job with each other and with the workers.
C1_SingleFlight == Cardinality(RunningJobs) <= 1

\* C2 (stated as in the specification; refuted): a call of
\* start_sp500_cache_job that finds a row with status 'running' returns
\* 'already_running', inserts no row and creates no thread.
C2_ConflictCreatesNothing ==
    \A c \in Callers :
        (req[c].pc # "idle" /\ req[c].running_before # {})
            => /\ req[c].pc = "done"
               /\ req[c].status = "already_running"
               /\ req[c].job_id = NoJob

\* C3 (stated as in the specification; refuted): the job_id of an
\* 'already_running' answer is never None and is the id of a job that was
\* running when the call was made.
C3_ConflictCarriesRunningJob ==
    \A c \in Callers :
        (req[c].pc = "done" /\ req[c].status = "already_running")
            => /\ req[c].returned_job_id # NoJob
               /\ req[c].returned_job_id \in req[c].running_before


\* ------------------------------------------------- the log of a batch run
\* attempts[k] is the k-th get_bars call of the run with the exception it
\* raised (NoErr: it returned).  The calls of one symbol are consecutive.
FirstCalls(a) == {k \in 1..Len(a) : k = 1 \/ a[k-1].ticker # a[k].ticker}
LastCalls(a) == {k \in 1..Len(a) : k = Len(a) \/ a[k+1].ticker # a[k].ticker}
\* The symbols whose get_bars attempt(s) ended in failure.
FailedCalls(a) == {k \in LastCalls(a) : a[k].err # NoErr}
\* The position in the universe of the symbol of call k.
SymbolIndex(a, k) == Cardinality({m \in FirstCalls(a) : m <= k})

\* Job j has a terminal status and its worker has not yet returned.
JobDone(j) ==
    /\ j \in 1..Len(cache_jobs)
    /\ cache_jobs[j].status \in Terminal
    /\ worker[j].pc \in {"finally", "exit"}

\* The loop of cache_all went through the whole universe.
RanToEnd(j) ==
    /\ worker[j].tickers # <<>>
    /\ Cardinality(FirstCalls(worker[j].attempts)) = Len(worker[j].tickers)

\* C4 (stated as in the specification, for the jobs whose loop ran to the
\* end; refuted): the persisted tickers_failed of a finished job is the
\* number of symbols whose get_bars attempt(s) failed, and its persisted
\* tickers_processed is the size of the universe.
C4_PersistedCounts ==
    \A j \in Jobs :
        (JobDone(j) /\ cache_jobs[j].status # "failed")
            => /\ cache_jobs[j].tickers_failed
                    = Cardinality(FailedCalls(worker[j].attempts))
               /\ cache_jobs[j].tickers_processed = Len(worker[j].tickers)

\* C5 (stated as in the specification; refuted): a finished job is
\* 'completed' exactly when the loop ran to the end and no symbol failed,
\* 'completed_with_errors' exactly when the loop ran to the end and some
\* symbol failed, and 'failed' only when no get_bars call of the run was
\* made and nothing was counted as processed.
C5_TerminalStatus ==
    \A j \in Jobs :
        JobDone(j) =>
            LET a == worker[j].attempts
                st == cache_jobs[j].status
            IN /\ st = "completed" <=> (RanToEnd(j) /\ FailedCalls(a) = {})
               /\ st = "completed_with_errors"
                    <=> (RanToEnd(j) /\ FailedCalls(a) # {})
               /\ st = "failed"
                    => (a = <<>> /\ cache_jobs[j].tickers_processed = 0)

\* A row enters cache_jobs with status 'running', and every change of a
\* row's status leads from 'running' to a terminal status: the status
\* changes at most once and a terminal status is never changed again.
StatusChangesAtMostOnce ==
    [][ /\ Len(cache_jobs') >= Len(cache_jobs)
        /\ \A j \in 1..Len(cache_jobs') :
             IF j > Len(cache_jobs)
             THEN cache_jobs'[j].status = "running"
             ELSE cache_jobs'[j].status # cache_jobs[j].status
                    => /\ cache_jobs[j].status = "running"
                       /\ cache_jobs'[j].status \in Terminal ]_vars

\* C6 (stated as in the specification; refuted): a row enters cache_jobs
\* with status 'running' and its status changes exactly once, from
\* 'running' to a terminal status: no step changes it in another way, and
\* every row comes to carry a terminal status, provided every fetch returns
\* and every thread keeps running.
C6_StatusChangesExactlyOnce ==
    /\ StatusChangesAtMostOnce
    /\ \A j \in Jobs :
         []<>(j \in 1..Len(cache_jobs) => cache_jobs[j].status \in Terminal)

\* C7: the get_bars calls of a run go through the universe in order, and a
\* run whose loop was entered ends only after every symbol was attempted,
\* however many of them failed.
C7_EverySymbolAttempted ==
    \A j \in Jobs :
        LET a == worker[j].attempts
        IN /\ \A k \in 1..Len(a) :
                /\ SymbolIndex(a, k) <= Len(worker[j].tickers)
                /\ a[k].ticker = worker[j].tickers[SymbolIndex(a, k)]
           /\ (JobDone(j) /\ worker[j].start # BadDate) => RanToEnd(j)

\* A run whose first symbol failed has gone on to the last symbol.
C7_Witness ==
    \E j \in Jobs :
        /\ JobDone(j)
        /\ Len(worker[j].tickers) >= 2
        /\ worker[j].attempts # <<>>
        /\ worker[j].attempts[1].err # NoErr
        /\ RanToEnd(j)

\* C8 (stated as in the specification; refuted): get_bars is called at most
\* twice per symbol; the second call is made exactly when the first failed
\* as rate-limited (HTTP 429); a symbol is recorded as failed once, exactly
\* when its last call failed.
C8_RetryOnlyWhenRateLimited ==
    \A j \in Jobs :
        LET a == worker[j].attempts
            retried(k) == k < Len(a) /\ a[k+1].ticker = a[k].ticker
        IN /\ \A k \in FirstCalls(a) :
                /\ (k + 1 \in LastCalls(a)) \/ (k \in LastCalls(a))
                /\ retried(k) => RateLimited(a[k].err)
                /\ (RateLimited(a[k].err) /\ worker[j].pc \notin {"retry", "in_retry"})
                     => retried(k)
           /\ worker[j].pc \notin {"in_call", "in_retry"}
                => /\ Len(worker[j].failed_tickers)
                        = Cardinality(FailedCalls(a) \ (IF worker[j].pc = "retry"
                                                        THEN {Len(a)} ELSE {}))
                   /\ \A m \in 1..Len(worker[j].failed_tickers) :
                        \E k \in FailedCalls(a) :
                            a[k].ticker = worker[j].failed_tickers[m]

\* ------------------------------------------------------ get_bars claims
\* No fetch of the call was answered with a failure that get_bars takes for
\* an authorization failure.
NoAuthFailure(f) ==
    \A k \in 1..Len(f.fetches) : ~MatchesAuth(f.fetches[k].resp)

\* The symbol's coverage contained [start, end] when the call was made.
Covered(f) ==
    /\ f.pre_meta.exists
    /\ f.pre_meta.first_date # NoDate
    /\ f.pre_meta.first_date <= f.start
    /\ f.end <= f.pre_meta.last_date

\* C9 (stated as in the specification, for the calls in which no fetch is
\* answered with an authorization failure; refuted): a get_bars call for a
\* symbol without rows in daily_bars issues exactly one fetch, and that
\* fetch covers exactly [start, end].
C9_EmptyStoreOneFetch ==
    \A p \in Procs :
        LET f == call[p]
        IN (f.pc \in {"returned", "raised"} /\ f.pre_count = 0 /\ NoAuthFailure(f))
            => /\ Len(f.fetches) = 1
               /\ f.fetches[1].start = f.start
               /\ f.fetches[1].end = f.end

\* C10: a get_bars call without force_refresh for a symbol whose coverage
\* [first_date, last_date] contains [start, end] issues no fetch: it goes
\* straight to reading the store.
C10_CoveredNoFetch ==
    \A p \in Procs :
        LET f == call[p]
        IN (f.pc # "idle" /\ ~f.force /\ Covered(f))
            => (f.fetches = <<>> /\ f.pc \in {"read", "returned"})

\* A covered, non-forced call has returned bars without any fetch.
C10_Witness ==
    LET f == call[SyncProc]
    IN /\ f.pc = "returned" /\ ~f.force /\ Covered(f)
       /\ f.fetches = <<>> /\ f.result # <<>>

\* ------------------------------------------------------ reconciler claims
\* The metadata row carries a coverage [first_date, last_date].
HasCoverage(meta) == meta.exists /\ meta.first_date # NoDate

\* The ranges of the fetches of a call, in the order they were issued.
FetchedRanges(f) ==
    [k \in 1..Len(f.fetches) |-> <<f.fetches[k].start, f.fetches[k].end>>]

\* Every fetch of the call returned bars.
AllFetchesSucceeded(f) ==
    \A k \in 1..Len(f.fetches) : f.fetches[k].resp = NoErr

\* C11: a get_bars call without force_refresh for a symbol with coverage
\* [first_date, last_date], all of whose fetches succeed, fetches exactly
\* (start, first_date - 1) when start < first_date and then
\* (last_date + 1, end) when end > last_date, and nothing else.
C11_MissingRangesRequested ==
    \A p \in Procs :
        LET f == call[p]
            m == f.pre_meta
        IN (f.pc = "returned" /\ ~f.force /\ HasCoverage(m) /\ AllFetchesSucceeded(f))
            => FetchedRanges(f)
                 = (IF f.start < m.first_date
                    THEN << <<f.start, m.first_date - 1>> >> ELSE <<>>)
                   \o (IF f.end > m.last_date
                       THEN << <<m.last_date + 1, f.end>> >> ELSE <<>>)

\* A call that needed data on both sides of the coverage has fetched the
\* earlier and then the later range.
C11_Witness ==
    LET f == call[SyncProc]
    IN /\ f.pc = "returned" /\ ~f.force /\ HasCoverage(f.pre_meta)
       /\ AllFetchesSucceeded(f)
       /\ Len(f.fetches) = 2
       /\ f.fetches[1].end < f.pre_meta.first_date
       /\ f.fetches[2].start > f.pre_meta.last_date

\* The range r lies wholly outside the coverage of the metadata row and is
\* not empty.
OutsideCoverage(r, meta) ==
    /\ r[1] <= r[2]
    /\ (r[2] < meta.first_date \/ r[1] > meta.last_date)

\* C12: for every symbol whose metadata row carries a coverage and every
\* request with start <= end, every range _determine_fetch_ranges returns is
\* non-empty (start <= end) and lies wholly outside [first_date, last_date];
\* so do the ranges a get_bars call has just planned to fetch.
C12_RangesOutsideCoverage ==
    /\ \A t \in Tickers, s \in ReqDates, e \in ReqDates :
          (s <= e /\ HasCoverage(ticker_metadata[t]))
            => LET rs == determine_fetch_ranges(ticker_metadata[t], s, e)
               IN \A k \in 1..Len(rs) : OutsideCoverage(rs[k], ticker_metadata[t])
    /\ \A p \in Procs :
          LET f == call[p]
          IN (f.pc = "fetch" /\ f.fetches = <<>>
                /\ HasCoverage(ticker_metadata[f.ticker]))
              => \A k \in 1..Len(f.ranges) :
                    OutsideCoverage(f.ranges[k], ticker_metadata[f.ticker])

\* A call has planned a range before and a range after the coverage.
C12_Witness ==
    LET f == call[SyncProc]
    IN /\ f.pc = "fetch" /\ f.fetches = <<>>
       /\ HasCoverage(ticker_metadata[f.ticker])
       /\ Len(f.ranges) = 2

\* ---------------------------------------------------------- store claims
\* C13: once a list of bars was stored for a symbol (_store_bars and
\* _update_metadata have completed), storing the same list again leaves the symbol's total_bars and the output of a read over any
\* range as they are.
C13_StoreTwiceSameAsOnce ==
    (last_op.op = "store" /\ NoSyncCall) =>
        LET t == last_op.ticker
            again == fetch_and_store(daily_bars[t], ticker_metadata[t],
                                     last_op.bars, tz_offset)
        IN /\ again.meta.total_bars = ticker_metadata[t].total_bars
           /\ CountRows(again.rows) = CountRows(daily_bars[t])
           /\ \A s \in StoreDates, e \in StoreDates :
                 get_from_cache(again.rows, s, e)
                   = get_from_cache(daily_bars[t], s, e)

\* A list of two bars was stored and changed the symbol's rows.
C13_Witness ==
    /\ last_op.op = "store" /\ NoSyncCall
    /\ Len(last_op.bars) = 2
    /\ daily_bars[last_op.ticker] # last_op.rows_before
    /\ ticker_metadata[last_op.ticker].total_bars >= 2

RECURSIVE LastStored(_, _, _)
\* The value of the last bar of the list whose local calendar day is d, as
\* a row sequence; <<>> when the list has no bar of that day.
LastStored(bars, d, tz) ==
    IF bars = <<>> THEN <<>>
    ELSE IF bar_date(bars[Len(bars)].t, tz) = d
         THEN <<bars[Len(bars)].c>>
         ELSE LastStored(SubSeq(bars, 1, Len(bars) - 1), d, tz)

\* C14: the store never holds more than one row per (symbol, date); once a
\* list of bars was stored, every date of the list carries the values of the
\* last bar stored for it (so a read returns them), the other dates are as
\* before, and the number of rows grew only by the dates that were new.
C14_OneBarPerDate ==
    /\ \A t \in Tickers, d \in StoreDates : Len(daily_bars[t][d]) <= 1
    /\ (last_op.op = "store" /\ NoSyncCall) =>
         LET t == last_op.ticker
             stored(d) == LastStored(last_op.bars, d, tz_offset)
             new == {d \in StoreDates :
                        stored(d) # <<>> /\ last_op.rows_before[d] = <<>>}
         IN /\ \A d \in StoreDates :
                  /\ daily_bars[t][d]
                       = (IF stored(d) # <<>> THEN stored(d)
                          ELSE last_op.rows_before[d])
                  /\ stored(d) # <<>>
                       => get_from_cache(daily_bars[t], d, d)
                            = << <<d, stored(d)[1]>> >>
            /\ CountRows(daily_bars[t])
                 = CountRows(last_op.rows_before) + Cardinality(new)

\* A bar was stored for a date that already had a row with another value:
\* the value changed and the number of rows did not.
C14_Witness ==
    /\ last_op.op = "store" /\ NoSyncCall
    /\ \E d \in StoreDates :
          /\ last_op.rows_before[d] # <<>>
          /\ daily_bars[last_op.ticker][d] # <<>>
          /\ daily_bars[last_op.ticker][d] # last_op.rows_before[d]
    /\ CountRows(daily_bars[last_op.ticker]) = CountRows(last_op.rows_before)

\* No get_bars call is under way: every store or delete operation that was
\* started has completed.
NoCallUnderWay ==
    \A p \in Procs : call[p].pc \in {"idle", "returned", "raised"}

\* C15 (stated as in the specification; refuted): whenever no operation is
\* under way, the total_bars of every symbol's metadata (0 without a
\* metadata row) is the number of the symbol's rows in daily_bars.
C15_TotalBarsIsRowCount ==
    NoCallUnderWay =>
        \A t \in Tickers :
            ticker_metadata[t].total_bars = CountRows(daily_bars[t])

\* The metadata row says what the rows say: first_date and last_date are the
\* least and the greatest date with a row and total_bars is the number of
\* rows; without rows it carries no coverage and counts 0.
MetadataMatchesRows(meta, rows) ==
    LET ds == {d \in StoreDates : rows[d] # <<>>}
    IN IF ds = {}
       THEN ~HasCoverage(meta) /\ meta.total_bars = 0
       ELSE /\ HasCoverage(meta)
            /\ meta.first_date = SetMin(ds)
            /\ meta.last_date = SetMax(ds)
            /\ meta.total_bars = CountRows(rows)

\* C16 (stated as in the specification; refuted): once _invalidate_range
\* of [start, end] has returned, the symbol's rows are the former rows with a date outside
\* [start, end], the count returned is the number of rows deleted, and the
\* metadata row is recomputed from the remaining rows: empty when none
\* remains.
C16_InvalidateRangeRecomputes ==
    (last_op.op = "invalidate_range" /\ NoSyncCall) =>
        LET t == last_op.ticker
            gone == {d \in StoreDates : last_op.start <= d /\ d <= last_op.end}
        IN /\ \A d \in StoreDates :
                 daily_bars[t][d]
                   = (IF d \in gone THEN <<>> ELSE last_op.rows_before[d])
           /\ last_op.count
                 = CountRows(last_op.rows_before) - CountRows(daily_bars[t])
           /\ MetadataMatchesRows(ticker_metadata[t], daily_bars[t])

\* C17: invalidate_ticker returns the number of rows the symbol had; once
\* it has returned, get_cache_status finds no metadata row and the read of any range is
\* empty.
C17_InvalidateTickerClears ==
    (last_op.op = "invalidate_ticker" /\ NoSyncCall) =>
        LET t == last_op.ticker
        IN /\ last_op.count = CountRows(last_op.rows_before)
           /\ get_cache_status(ticker_metadata[t]) = NoRow
           /\ \A s \in StoreDates, e \in StoreDates :
                 get_from_cache(daily_bars[t], s, e) = <<>>

\* invalidate_ticker has removed two rows and the metadata row of a symbol.
C17_Witness ==
    /\ last_op.op = "invalidate_ticker"
    /\ last_op.count = 2
    /\ last_op.meta_before.exists
    /\ ~ticker_metadata[last_op.ticker].exists

\* C18 (stated as in the specification; refuted): for every symbol whose
\* metadata has total_bars > 0, first_date <= last_date, first_date is the
\* least and last_date the greatest date among the symbol's rows.
C18_CoverageIsMinMax ==
    \A t \in Tickers :
        ticker_metadata[t].total_bars > 0 =>
            /\ ticker_metadata[t].first_date <= ticker_metadata[t].last_date
            /\ BarDates(daily_bars, t) # {}
            /\ ticker_metadata[t].first_date = SetMin(BarDates(daily_bars, t))
            /\ ticker_metadata[t].last_date = SetMax(BarDates(daily_bars, t))

\* ------------------------------------------ authorization-failure claims
\* Every failure among the fetches of the call is an authorization failure.
OnlyAuthFailures(f) ==
    \A k \in 1..Len(f.fetches) :
        f.fetches[k].resp = NoErr \/ AuthorizationDenied(f.fetches[k].resp)

\* C19: a get_bars call all of whose upstream failures are authorization
\* failures (HTTP 403), the failure of the full-range retry included, never
\* raises; when it returns, what it returns is the read of [start, end] from
\* the store as it is then, and nothing else.
C19_AuthFailuresServeStore ==
    /\ [](\A p \in Procs :
            OnlyAuthFailures(call[p]) => call[p].pc # "raised")
    /\ [][\A p \in Procs :
            (call[p].pc # "returned" /\ call'[p].pc = "returned"
                /\ OnlyAuthFailures(call'[p]))
              => call'[p].result
                   = get_from_cache(daily_bars'[call'[p].ticker],
                                    call'[p].start, call'[p].end)]_vars

\* A call whose range fetch and whose full-range retry were both refused has
\* returned the bars the store had.
C19_Witness ==
    LET f == call[SyncProc]
    IN /\ f.pc = "returned"
       /\ OnlyAuthFailures(f)
       /\ \E k \in 1..Len(f.fetches) :
             f.fetches[k].kind = "full" /\ AuthorizationDenied(f.fetches[k].resp)
       /\ f.result # <<>>

\* The positions of the full-range retries among the fetches of a call.
FullRangeRetries(f) ==
    {k \in 1..Len(f.fetches) : f.fetches[k].kind = "full"}

\* Every full-range retry asks for [start, end] and follows a missing-range
\* fetch that failed with what get_bars takes for an authorization failure;
\* every such failure is followed by a full-range retry.
RetriesFollowAuthFailures(f) ==
    /\ \A k \in FullRangeRetries(f) :
          /\ f.fetches[k].start = f.start /\ f.fetches[k].end = f.end
          /\ k > 1
          /\ f.fetches[k-1].kind = "range"
          /\ MatchesAuth(f.fetches[k-1].resp)
    /\ \A k \in 1..Len(f.fetches) :
          (f.fetches[k].kind = "range" /\ MatchesAuth(f.fetches[k].resp))
            => IF k = Len(f.fetches) THEN f.pc = "retry"
               ELSE k + 1 \in FullRangeRetries(f)

\* C20 (stated as in the specification; refuted): an authorization failure
\* of a missing-range fetch is followed by one retry with the full [start,
\* end], and one get_bars call issues at most one full-range retry.
C20_OneFullRangeRetry ==
    \A p \in Procs :
        /\ RetriesFollowAuthFailures(call[p])
        /\ Cardinality(FullRangeRetries(call[p])) <= 1

\* --------------------------------------------------- propagation claims
\* C21 (stated as in the specification; refuted): every failure of a fetch
\* of a get_bars call that is not an authorization failure (HTTP 403), be it
\* the fetch of a missing range or the full-range retry, is raised to the
\* caller at once: it is the last fetch of the call and the call has raised
\* that failure.
C21_OtherFailuresPropagate ==
    \A p \in Procs :
        LET f == call[p]
        IN \A k \in 1..Len(f.fetches) :
              (f.fetches[k].resp # NoErr /\ ~AuthorizationDenied(f.fetches[k].resp))
                => /\ k = Len(f.fetches)
                   /\ f.pc = "raised"
                   /\ f.err = f.fetches[k].resp

\* ------------------------------------------------- forced-refresh claims
\* The fetches of the call cover [start, end]: every requested day lies in
\* the range of one of them.
FetchesCoverRequest(f) ==
    \A d \in f.start..f.end :
        \E k \in 1..Len(f.fetches) :
            f.fetches[k].start <= d /\ d <= f.fetches[k].end

\* C22 (stated as in the specification; refuted): a get_bars call with
\* force_refresh whose fetches all succeed has, once its fetch loop is over,
\* issued fetches that cover the requested [start, end], whatever the
\* symbol's coverage was before the call; and what it returns are the bars
\* the upstream has for [start, end].
C22_ForceRefreshFetches ==
    \A p \in Procs :
        LET f == call[p]
        IN (f.force /\ f.pc \in {"read", "returned"} /\ AllFetchesSucceeded(f))
            => /\ FetchesCoverRequest(f)
               /\ (f.pc = "returned" /\ last_op.op = "get_bars")
                    => f.result
                         = get_from_cache(
                              store_bars(NoBars,
                                         fetch_aggregate_bars(f.ticker, f.start, f.end),
                                         tz_offset),
                              f.start, f.end)

\* ------------------------------------------------------------ read claims
\* C23: what a get_bars call returns is exactly the symbol's rows with
\* start <= date <= end, both bounds included, one entry per row, in
\* strictly ascending order of date; rows that a fetch of the call stored
\* outside [start, end] are not part of it.
C23_ResultIsStoredRange ==
    LET f == call[SyncProc]
        rows == daily_bars[f.ticker]
        res == f.result
    IN (f.pc = "returned" /\ last_op.op = "get_bars")
        => /\ \A k \in 1..Len(res) :
                /\ f.start <= res[k][1] /\ res[k][1] <= f.end
                /\ rows[res[k][1]] = <<res[k][2]>>
           /\ \A k \in 1..(Len(res) - 1) : res[k][1] < res[k+1][1]
           /\ \A d \in StoreDates :
                (f.start <= d /\ d <= f.end /\ rows[d] # <<>>)
                  => \E k \in 1..Len(res) : res[k][1] = d

\* A call that found no rows has fetched, stored a row outside [start, end]
\* and returned the row of its last requested day.
C23_Witness ==
    LET f == call[SyncProc]
    IN /\ f.pc = "returned" /\ last_op.op = "get_bars"
       /\ f.pre_count = 0
       /\ f.fetches # <<>>
       /\ \E d \in StoreDates :
             (d < f.start \/ d > f.end) /\ daily_bars[f.ticker][d] # <<>>
       /\ f.result # <<>>

\* -------------------------------------------------- refresh-policy claims
\* C24: decide_strategy follows the decision table, in this order:
\* force_full gives FULL_REFRESH; else no metadata, or a last_full_refresh
\* never set, gives FULL_REFRESH; else a last_full_refresh at least
\* FULL_REFRESH_INTERVAL_DAYS old gives FULL_REFRESH, however old
\* last_updated is; else a last_updated at least
\* ROLLING_REFRESH_INTERVAL_DAYS old gives ROLLING_WINDOW; else APPEND_ONLY.
C24_DecisionTable ==
    (policy.op = "decide_strategy" /\ policy.done) =>
        LET m == policy.metadata
            full_age == PolicyNow - m.last_full_refresh
            update_age == PolicyNow - m.last_updated
        IN policy.strategy =
             (CASE policy.force_full -> "FULL_REFRESH"
                [] ~policy.force_full
                     /\ (m = NoMetadata \/ m.last_full_refresh = NoTime)
                     -> "FULL_REFRESH"
                [] ~policy.force_full /\ m # NoMetadata
                     /\ m.last_full_refresh # NoTime
                     /\ full_age >= FULL_REFRESH_INTERVAL_DAYS * HoursPerDay
                     -> "FULL_REFRESH"
                [] ~policy.force_full /\ m # NoMetadata
                     /\ m.last_full_refresh # NoTime
                     /\ full_age < FULL_REFRESH_INTERVAL_DAYS * HoursPerDay
                     /\ m.last_updated # NoTime
                     /\ update_age >= ROLLING_REFRESH_INTERVAL_DAYS * HoursPerDay
                     -> "ROLLING_WINDOW"
                [] OTHER -> "APPEND_ONLY")

\* decide_strategy has answered FULL_REFRESH for a symbol whose full refresh
\* is due and whose last_updated is stale as well.
C24_Witness ==
    /\ policy.op = "decide_strategy" /\ policy.done
    /\ ~policy.force_full
    /\ policy.metadata.exists
    /\ policy.metadata.last_full_refresh # NoTime
    /\ PolicyNow - policy.metadata.last_full_refresh
         >= FULL_REFRESH_INTERVAL_DAYS * HoursPerDay
    /\ policy.metadata.last_updated # NoTime
    /\ PolicyNow - policy.metadata.last_updated
         >= ROLLING_REFRESH_INTERVAL_DAYS * HoursPerDay
    /\ policy.strategy = "FULL_REFRESH"

\* C25: for a known cached_last_date get_refresh_range returns
\* (start, end) for FULL_REFRESH; (max(today - ROLLING_WINDOW_DAYS, start),
\* end) for ROLLING_WINDOW; and for APPEND_ONLY, with fetch_start the
\* earlier of today - ALWAYS_FETCH_DAYS and cached_last_date + 1, (None, None)
\* when fetch_start > end and (fetch_start, end) otherwise.
C25_RefreshRange ==
    (policy.op = "get_refresh_range" /\ policy.done
        /\ policy.cached_last # NoDate) =>
        LET cutoff == PolicyToday - ALWAYS_FETCH_DAYS
            next_day == policy.cached_last + 1
            fetch_start == IF cutoff < next_day THEN cutoff ELSE next_day
            window == PolicyToday - ROLLING_WINDOW_DAYS
        IN /\ policy.strategy = "FULL_REFRESH"
                => policy.range = <<policy.start, policy.end>>
           /\ policy.strategy = "ROLLING_WINDOW"
                => /\ policy.range[2] = policy.end
                   /\ policy.range[1] >= window
                   /\ policy.range[1] >= policy.start
                   /\ policy.range[1] \in {window, policy.start}
           /\ policy.strategy = "APPEND_ONLY"
                => IF fetch_start > policy.end
                   THEN policy.range = NoRange
                   ELSE policy.range = <<fetch_start, policy.end>>

\* An APPEND_ONLY call for a symbol cached up to today has returned the
\* range that starts at the always-fetch cutoff.
C25_Witness ==
    /\ policy.op = "get_refresh_range" /\ policy.done
    /\ policy.strategy = "APPEND_ONLY"
    /\ policy.cached_last = PolicyToday
    /\ policy.range = <<PolicyToday - ALWAYS_FETCH_DAYS, policy.end>>
    /\ policy.end >= PolicyToday

\* The dict decide_strategy is given for a row of ticker_metadata whose
\* last_updated is u.  last_full_refresh is written by mark_full_refresh
\* alone (neither _update_metadata nor mark_sp500 touches the column), and
\* nothing in the repository calls mark_full_refresh: in a row that only
\* get_bars and the batch job have written it is NULL.
stored_metadata(meta, u) ==
    IF meta.exists
    THEN [exists |-> TRUE, last_updated |-> u,
          last_full_refresh |-> meta.last_full_refresh]
    ELSE NoMetadata

\* C26 (stated as in the specification; refuted): when the batch worker
\* handles a symbol for which decide_strategy yields FULL_REFRESH, and its
\* fetches succeed, it fetches the range get_refresh_range gives for that
\* strategy, the full requested [start, end], and not only the ranges
\* outside the symbol's coverage.
C26_BatchAppliesPolicy ==
    \A j \in Jobs :
        LET f == call[j]
        IN (/\ f.pc \in {"read", "returned"}
            /\ AllFetchesSucceeded(f)
            /\ \A u \in PolicyTimes :
                  decide_strategy(stored_metadata(f.pre_meta, u), FALSE, PolicyNow)
                    = "FULL_REFRESH")
            => \E k \in 1..Len(f.fetches) :
                  <<f.fetches[k].start, f.fetches[k].end>>
                    = get_refresh_range("FULL_REFRESH", f.start, f.end,
                                        f.pre_meta.last_date, PolicyToday)

\* ------------------------------------------------------- staleness claims
\* C27 (stated as in the specification; refuted): once the provider has
\* revised the close of a stored bar, repeated cached reads and batch runs
\* over ranges that contain the bar's date, with every fetch succeeding,
\* eventually replace the stored value: no bar stays for ever at the close
\* the provider has withdrawn.
C27_StaleBarsRefreshed ==
    \A t \in SyncTickers, d \in StoreDates :
        []<>(~(adjusted_close = RevisedClose
               /\ daily_bars[t][d] = <<OriginalClose>>))

\* ----------------------------------------------------- concurrency claims
\* A worker's get_bars call for the symbol and the request thread's calls
\* for it have finished, all with bars of the same upstream history.
WritersFinished(j, t) ==
    /\ call[j].pc = "returned" /\ call[j].ticker = t
    /\ call[SyncProc].pc = "returned" /\ call[SyncProc].ticker = t
    /\ adjusted_close = OriginalClose

\* C28 (stated as in the specification; refuted): when a batch worker and
\* the request thread have written the same symbol from the same upstream
\* data and both have finished, the symbol's rows are the same whatever the
\* interleaving of their steps was: the rows of the upstream's bars for the
\* worker's range, which contains the request thread's.
C28_WritersConverge ==
    \A j \in Jobs, t \in SyncTickers :
        WritersFinished(j, t)
            => daily_bars[t]
                 = store_bars(NoBars,
                              fetch_aggregate_bars(t, call[j].start, call[j].end),
                              tz_offset)

\* ------------------------------------------------------ termination claims
\* C29 (stated as in the specification; refuted): every row of cache_jobs,
\* inserted with status 'running' when its job was started, eventually
\* carries a terminal status, provided every fetch returns and every thread
\* keeps running.
C29_JobsTerminate ==
    \A j \in Jobs :
        []<>(j \in 1..Len(cache_jobs) => cache_jobs[j].status \in Terminal)

\* -------------------------------------------------------- progress claims
\* C30: while a row of cache_jobs has status 'running', no step changes its
\* tickers_total or lowers its tickers_processed or tickers_failed; a step
\* changes tickers_processed only by one, when the worker has finished the
\* attempt(s) of a symbol, and every step in which the worker finishes a
\* symbol leaves tickers_processed at the number of symbols handled so far.
C30_ProgressMonotone ==
    [][\A j \in 1..Len(cache_jobs) :
          cache_jobs[j].status = "running" =>
            LET old == cache_jobs[j]
                new == cache_jobs'[j]
                handled == Cardinality(FirstCalls(worker'[j].attempts))
            IN /\ new.tickers_total = old.tickers_total
               /\ new.tickers_processed >= old.tickers_processed
               /\ new.tickers_failed >= old.tickers_failed
               /\ new.tickers_processed # old.tickers_processed
                    => /\ new.tickers_processed = old.tickers_processed + 1
                       /\ new.tickers_processed = handled
                       /\ worker'[j].pc \in {"attempt", "finish"}
               /\ (worker[j].pc \in {"in_call", "in_retry"}
                     /\ worker'[j].pc \in {"attempt", "finish"})
                    => new.tickers_processed = handled]_vars

\* A running job has counted its first symbol as processed after that
\* symbol's two get_bars calls, with the second symbol still to come.
C30_Witness ==
    \E j \in 1..Len(cache_jobs) :
        /\ cache_jobs[j].status = "running"
        /\ cache_jobs[j].tickers_total = 2
        /\ cache_jobs[j].tickers_processed = 1
        /\ Len(worker[j].attempts) = 2
        /\ worker[j].attempts[1].ticker = worker[j].attempts[2].ticker
        /\ worker[j].pc = "attempt"

\* ------------------------------------------------------ interior-gap claims
\* The days strictly inside the coverage the call found for which the
\* symbol has no row.
InteriorGaps(f) ==
    {d \in StoreDates : /\ f.pre_meta.first_date < d
                        /\ d < f.pre_meta.last_date
                        /\ daily_bars[f.ticker][d] = <<>>}

\* C31: a get_bars call without force_refresh whose range lies within the
\* coverage [first_date, last_date] the symbol's metadata carries issues no
\* fetch, also when rows of days strictly inside the coverage are missing;
\* what it returns has no entry for the missing days.
C31_InteriorGapsNotFetched ==
    \A p \in Procs :
        LET f == call[p]
        IN (f.pc # "idle" /\ ~f.force /\ Covered(f))
            => /\ f.fetches = <<>>
               /\ f.pc \in {"read", "returned"}
               /\ (f.pc = "returned" /\ last_op.op = "get_bars")
                    => \A d \in InteriorGaps(f) :
                          \A k \in 1..Len(f.result) : f.result[k][1] # d

\* A non-forced call over a coverage with a missing day inside the requested
\* range has returned the rows around the gap without any fetch.
C31_Witness ==
    LET f == call[SyncProc]
    IN /\ f.pc = "returned" /\ last_op.op = "get_bars"
       /\ ~f.force /\ Covered(f)
       /\ \E d \in InteriorGaps(f) : f.start < d /\ d < f.end
       /\ f.fetches = <<>>
       /\ Len(f.result) >= 2

\* ------------------------------------------------ full-range retry claims
\* The ranges a call without force_refresh planned to fetch.
PlannedRanges(f) == determine_fetch_ranges(f.pre_meta, f.start, f.end)

\* Where the call is, or goes on once the answer it holds is stored and the
\* metadata updated.
GoesOnAt(f) == IF f.pc \in {"store", "select", "upsert"} THEN f.then ELSE f.pc

\* The number of missing-range fetches among the first k fetches of a call.
RangeFetchesUpTo(f, k) ==
    Cardinality({m \in 1..k : f.fetches[m].kind = "range"})

\* C32: within one get_bars call a full-range retry that succeeds is the
\* last fetch of the call, whatever ranges were still to fetch; a
\* full-range retry that fails does not make the call raise: the call goes
\* on with the next planned range, or to the read when none is left.
C32_RetryEndsOrContinues ==
    \A p \in Procs :
        LET f == call[p]
        IN \A k \in FullRangeRetries(f) :
              IF f.fetches[k].resp = NoErr
              THEN k = Len(f.fetches) /\ GoesOnAt(f) \in {"read", "returned"}
              ELSE /\ k = Len(f.fetches) => f.pc \in {"fetch", "read", "returned"}
                   /\ k < Len(f.fetches) => f.fetches[k+1].kind = "range"
                   /\ ~f.force =>
                        LET n == RangeFetchesUpTo(f, k)
                        IN IF n < Len(PlannedRanges(f))
                           THEN IF k < Len(f.fetches)
                                THEN <<f.fetches[k+1].start, f.fetches[k+1].end>>
                                       = PlannedRanges(f)[n+1]
                                ELSE /\ f.pc = "fetch"
                                     /\ Head(f.ranges) = PlannedRanges(f)[n+1]
                           ELSE k = Len(f.fetches) /\ f.pc \in {"read", "returned"}

\* A call that planned two ranges has returned after the fetch of the first
\* was refused and the full-range retry succeeded: the second range was
\* never fetched.
C32_Witness ==
    LET f == call[SyncProc]
    IN /\ f.pc = "returned" /\ ~f.force
       /\ Len(PlannedRanges(f)) = 2
       /\ Len(f.fetches) = 2
       /\ AuthorizationDenied(f.fetches[1].resp)
       /\ f.fetches[2].kind = "full" /\ f.fetches[2].resp = NoErr

\* ----------------------------------------------- refused-symbol claims
\* The call has issued fetches and every one of them, missing-range fetch
\* and full-range retry alike, was refused (HTTP 403).
AllFetchesDenied(f) ==
    /\ f.fetches # <<>>
    /\ \A k \in 1..Len(f.fetches) : AuthorizationDenied(f.fetches[k].resp)

\* C33: when the batch worker is through with a get_bars call all of whose
\* fetches were refused, the call has returned and the symbol is counted as
\* a success: success_count grows by one, fail_count and failed_tickers stay
\* as they are and the loop goes on to the next symbol or to the end.
C33_RefusedSymbolCountsAsSuccess ==
    [][\A j \in Jobs :
          (WorkerInCall(j) /\ call[j].pc \in {"returned", "raised"}
             /\ AllFetchesDenied(call[j]) /\ worker'[j] # worker[j])
            => /\ call[j].pc = "returned"
               /\ worker'[j].success_count = worker[j].success_count + 1
               /\ worker'[j].fail_count = worker[j].fail_count
               /\ worker'[j].failed_tickers = worker[j].failed_tickers
               /\ worker'[j].pc \in {"attempt", "finish"}]_vars

\* A job has ended 'completed', every symbol counted as a success, while a
\* symbol of the universe has no row in daily_bars.
C33_Witness ==
    \E j \in Jobs :
        /\ JobDone(j)
        /\ cache_jobs[j].status = "completed"
        /\ worker[j].success_count = Len(worker[j].tickers)
        /\ worker[j].fail_count = 0
        /\ \E k \in 1..Len(worker[j].tickers) :
              BarDates(daily_bars, worker[j].tickers[k]) = {}

\* --------------------------------------------- concurrent-metadata claims
\* C34 (stated as in the specification; refuted): when every thread that
\* ran _fetch_and_store for a symbol (store, then SELECT MIN/MAX/COUNT, then
\* upsert of the metadata row, as separate steps) has finished, the symbol's
\* first_date, last_date and total_bars are the values computed from the rows
\* the symbol has then, whatever the interleaving was.
C34_MetadataAfterWriters ==
    (\A w \in Writers : writer[w].pc \in {"idle", "done"})
        => \A t \in SyncTickers :
              MetadataMatchesRows(ticker_metadata[t], daily_bars[t])

\* ----------------------------------------------------- put/call claims
\* C38 (stated as in the specification; refuted): a fetch_polygon_daily
\* call issues at most max_pages (50) requests, whatever the upstream
\* answers, rate-limit answers (429) included; so it terminates.
C38_AtMostMaxPagesRequests == snapshot.requests <= max_pages

\* C39 (stated as in the specification; refuted): a load_cboe_historical
\* call that found the marker unset and in which the download of every
\* source failed, so that nothing was stored, leaves the 'cboe_loaded' marker
\* unset; hence a call that skips the download because of the marker is
\* never made while the table has no CBOE row.
C39_MarkerOnlyAfterLoad ==
    /\ (loader.pc = "done" /\ ~loader.skipped /\ ~loader.loaded_before
          /\ loader.failed = Len(CboeSources))
         => ~cboe_loaded
    /\ (loader.pc = "done" /\ loader.skipped)
         => \E d \in PcrDates : putcall_ratio[d] = "cboe"

\* ------------------------------------------------- refresh-range claims
\* C35 (stated as in the specification; refuted): for every strategy and
\* every request with start <= end, get_refresh_range returns either
\* (None, None) or a range whose start is not after its end.
C35_RefreshRangeWellFormed ==
    (policy.op = "get_refresh_range" /\ policy.done /\ policy.start <= policy.end)
        => \/ policy.range = NoRange
           \/ policy.range[1] <= policy.range[2]

\* ------------------------------------------------ coverage-report claims
\* C36 (stated as in the specification; refuted): every report of
\* get_caching_status is consistent with itself: cached_count +
\* missing_count is the size of the universe, coverage_pct is at most 100,
\* and missing_tickers are the first min(20, missing_count) symbols of the
\* universe that are not cached.
C36_CoverageReportConsistent ==
    last_op.op = "get_caching_status" =>
        LET r == last_op.result
        IN /\ r.cached_count + r.missing_count = r.total_sp500
           /\ r.coverage_pct <= 100 * 10
           /\ Len(r.missing_tickers)
                = (IF r.missing_count < MissingShown
                   THEN r.missing_count ELSE MissingShown)

\* ------------------------------------------------------------ frame claims
\* C37: a step of get_bars (the invalidation of a forced call and the
\* storing of fetched bars included) or of invalidate_ticker for one symbol
\* leaves the rows and the metadata row of every other symbol as they are.
C37_OtherSymbolsUntouched ==
    [][\A b \in Tickers :
          (daily_bars'[b] # daily_bars[b] \/ ticker_metadata'[b] # ticker_metadata[b])
            => \/ /\ last_op'.op = "get_bars"
                  /\ call'[SyncProc].pc # "idle"
                  /\ call'[SyncProc].ticker = b
               \/ /\ last_op'.op = "invalidate_ticker"
                  /\ last_op'.ticker = b
                  /\ call[SyncProc].pc = "delete"]_vars

\* invalidate_ticker has removed the rows and the metadata row of one
\* symbol while another symbol has rows and a metadata row.
C37_Witness ==
    /\ last_op.op = "invalidate_ticker" /\ NoSyncCall
    /\ last_op.count > 0
    /\ last_op.meta_before.exists
    /\ daily_bars[last_op.ticker] = NoBars
    /\ ~ticker_metadata[last_op.ticker].exists
    /\ last_op.ticker # OtherTicker
    /\ BarDates(daily_bars, OtherTicker) # {}
    /\ ticker_metadata[OtherTicker].exists

====
